---- MODULE Spec2Model ----
(***************************************************************************)
(* Model of the DatoCMS "Excel -> JSON" field-editor plugin.               *)
(*                                                                         *)
(* Two parts share this module:                                            *)
(*  - the path resolver (pure functions over the host's formValues tree),  *)
(*    exercised by SpecResolve, whose Init draws the record tree, the      *)
(*    editing field path, the locale and the target key from bounded sets; *)
(*  - the Uploader editor (busy flag, notice, import / save-and-publish /  *)
(*    force re-import chains awaiting the host), exercised by Spec.        *)
(***************************************************************************)
EXTENDS Integers, Sequences, FiniteSets, TLC

(***************************************************************************)
(* JSON values as the plugin sees them.  Every value is a record of the    *)
(* same shape so that any two values can be compared:                      *)
(*   t    : "undef" | "null" | "str" | "num" | "obj" | "arr"               *)
(*   s    : the text of a string, the digits of a number                   *)
(*   kids : the own enumerable properties in Object.keys order, each       *)
(*          [k |-> key, v |-> value]; array elements have k = index        *)
(* Strings are opaque: a field identifier is never a character index.      *)
(***************************************************************************)
Undefined == [t |-> "undef", s |-> "", kids |-> <<>>]
Null == [t |-> "null", s |-> "", kids |-> <<>>]
Str(x) == [t |-> "str", s |-> x, kids |-> <<>>]
Num(x) == [t |-> "num", s |-> x, kids |-> <<>>]
Obj(entries) == [t |-> "obj", s |-> "", kids |-> entries]
KV(key, val) == [k |-> key, v |-> val]

IndexKey(i) == ToString(i - 1)
Arr(items) == [t |-> "arr", s |-> "",
               kids |-> [i \in 1..Len(items) |-> KV(IndexKey(i), items[i])]]

\* typeof v === 'object' && v !== null
IsObjectLike(v) == v.t \in {"obj", "arr"}
IsArray(v) == v.t = "arr"
\* v == null  (null or undefined)
IsNullish(v) == v.t \in {"undef", "null"}
\* JavaScript truthiness
Truthy(v) ==
  CASE v.t \in {"undef", "null"} -> FALSE
    [] v.t = "str" -> v.s # ""
    [] v.t = "num" -> v.s \notin {"0", "NaN"}
    [] OTHER -> TRUE

\* Object.prototype.hasOwnProperty.call(v, key)
HasOwn(v, key) == IsObjectLike(v) /\ \E i \in 1..Len(v.kids) : v.kids[i].k = key
\* v[key] on a non-nullish v
Prop(v, key) ==
  IF HasOwn(v, key)
    THEN (v.kids[CHOOSE i \in 1..Len(v.kids) : v.kids[i].k = key]).v
    ELSE Undefined
\* Object.keys(v)
Keys(v) == [i \in 1..Len(v.kids) |-> v.kids[i].k]

\* The strings of the model that begin with "http"
HttpStrings == {"http://files/a.xlsx", "https://files/b.csv?x=1", "httpfoo"}
StartsWithHttp(x) == x \in HttpStrings

(***************************************************************************)
(* Dotted path strings.  A string is kept as the sequence of its segments  *)
(* between dots (what split('.') yields), the empty sequence being the     *)
(* empty string; a leading dot shows as an empty first segment.            *)
(***************************************************************************)
EmptyString == <<>>
\* `${p}.${key}` for a string p
DotCat(p, key) == IF p = EmptyString THEN <<"", key>> ELSE Append(p, key)
\* p + locSuffix, locSuffix being '' or `.${locale}`
WithLocSuffix(p, suffixLocale) ==
  IF suffixLocale = "" THEN p ELSE DotCat(p, suffixLocale)

\* path.split('.').filter(Boolean)
splitPath(path) == SelectSeq(path, LAMBDA seg : seg # "")
\* segs.slice(0, -1).join('.')
parentPath(path) ==
  LET segs == splitPath(path)
  IN IF Len(segs) = 0 THEN EmptyString ELSE SubSeq(segs, 1, Len(segs) - 1)

\* The outcome of an access that raises a TypeError
Throw == [t |-> "throw", s |-> "", kids |-> <<>>]
IsThrow(v) == v.t = "throw"

RECURSIVE ReduceTruthy(_, _, _)
ReduceTruthy(acc, segs, i) ==
  IF i > Len(segs) THEN acc
  ELSE ReduceTruthy(IF Truthy(acc) THEN Prop(acc, segs[i]) ELSE Undefined, segs, i + 1)
RECURSIVE ReduceUnguarded(_, _, _)
ReduceUnguarded(acc, segs, i) ==
  IF i > Len(segs) \/ IsThrow(acc) THEN acc
  ELSE ReduceUnguarded(IF IsNullish(acc) THEN Throw ELSE Prop(acc, segs[i]), segs, i + 1)
\* the reducer without its guard: acc[seg] on null or undefined raises
getAtPathUnguarded(root, path) == ReduceUnguarded(root, splitPath(path), 1)
\* splitPath(path).reduce((acc, seg) => (acc ? acc[seg] : undefined), root)
getAtPath(root, path) == ReduceTruthy(root, splitPath(path), 1)

RECURSIVE ReduceNullish(_, _, _)
ReduceNullish(acc, segs, i) ==
  IF i > Len(segs) THEN acc
  ELSE ReduceNullish(IF IsNullish(acc) THEN acc ELSE Prop(acc, segs[i]), segs, i + 1)
\* parts.reduce((acc, seg) => (acc == null ? acc : acc[seg]), root)
getValueAt(root, dotted) == ReduceNullish(root, splitPath(dotted), 1)

(***************************************************************************)
(* Locale Selector and Upload Value Normalizer.                            *)
(***************************************************************************)
RECURSIVE FirstTruthyKid(_, _)
FirstTruthyKid(raw, i) ==
  IF i > Len(raw.kids) THEN Null
  ELSE IF Truthy(raw.kids[i].v) THEN raw.kids[i].v
  ELSE FirstTruthyKid(raw, i + 1)

pickAnyLocaleValue(raw, locale) ==
  IF ~Truthy(raw) \/ ~IsObjectLike(raw) \/ IsArray(raw)
    THEN (IF IsNullish(raw) THEN Null ELSE raw)
  ELSE IF locale # "" /\ HasOwn(raw, locale) /\ Truthy(Prop(raw, locale))
    THEN Prop(raw, locale)
  ELSE FirstTruthyKid(raw, 1)

\* part_001: pickLocalizedValue(raw, locale)
pickLocalizedValue(raw, loc) ==
  IF Truthy(raw) /\ IsObjectLike(raw) /\ loc # "" /\ Prop(raw, loc) # Undefined
    THEN Prop(raw, loc)
    ELSE raw

UploadRef(id) == Obj(<<KV("upload_id", id)>>)
DirectUrlRef(url) == Obj(<<KV("__direct_url", Str(url))>>)

\* the inline copy of the normalizer's tail, raw0 being truthy; the optional
\* chaining (raw?.upload_id) makes an empty array's raw[0] harmless
UploadShape(raw0) ==
  LET raw == IF IsArray(raw0) THEN Prop(raw0, "0") ELSE raw0
  IN IF IsNullish(raw) THEN Null
     ELSE IF Truthy(Prop(raw, "upload_id")) THEN raw
     ELSE IF Truthy(Prop(Prop(raw, "upload"), "id"))
       THEN UploadRef(Prop(Prop(raw, "upload"), "id"))
     ELSE IF raw.t = "str" /\ StartsWithHttp(raw.s) THEN DirectUrlRef(raw.s)
     ELSE Null

normalizeUploadLike(raw0) ==
  IF ~Truthy(raw0) THEN Null
  ELSE LET raw == IF IsArray(raw0) THEN Prop(raw0, "0") ELSE raw0
       IN IF ~Truthy(raw) THEN Null
          ELSE IF Truthy(Prop(raw, "upload_id")) THEN raw
          ELSE IF Truthy(Prop(Prop(raw, "upload"), "id"))
            THEN UploadRef(Prop(Prop(raw, "upload"), "id"))
          ELSE IF raw.t = "str" /\ StartsWithHttp(raw.s) THEN DirectUrlRef(raw.s)
          ELSE Null

(***************************************************************************)
(* The host context: ctx = [formValues, fieldPath, locale, fields, field]. *)
(* fields is Object.values(ctx.fields), each a Field Descriptor            *)
(* [id, apiKey, localized, fieldType]; NoDef stands for "not found".       *)
(***************************************************************************)
NoDef == [id |-> "", apiKey |-> "", localized |-> FALSE, fieldType |-> ""]

RECURSIVE FindDef(_, _, _)
FindDef(defs, pred(_), i) ==
  IF i > Len(defs) THEN NoDef
  ELSE IF pred(defs[i]) THEN defs[i]
  ELSE FindDef(defs, pred, i + 1)

\* { id: String(f?.id), apiKey: f?.apiKey ?? f?.attributes?.api_key }
currentFieldInfo(ctx) == [id |-> ctx.field.id, apiKey |-> ctx.field.apiKey]

NoHit == [found |-> FALSE, threw |-> FALSE, container |-> Undefined,
          containerPath |-> EmptyString]
ThrowHit == [found |-> FALSE, threw |-> TRUE, container |-> Undefined,
             containerPath |-> EmptyString]
Hit(node, path) == [found |-> TRUE, threw |-> FALSE, container |-> node,
                    containerPath |-> path]

RECURSIVE walk(_, _, _, _)
RECURSIVE walkKids(_, _, _, _, _)
\* the children visited from the last to the first
walkKidsDescending(node, trail, id, apiKey, i) ==
  IF i > Len(node.kids) THEN NoHit
  ELSE LET j == Len(node.kids) + 1 - i
           r == walk(node.kids[j].v, Append(trail, node.kids[j].k), id, apiKey)
       IN IF r.found THEN r ELSE walkKids(node, trail, id, apiKey, i + 1)
\* pre-order: the node itself, then array elements by index / object
\* children in Object.keys order, the first hit returned
walk(node, trail, id, apiKey) ==
  IF ~Truthy(node) \/ ~IsObjectLike(node) THEN NoHit
  ELSE IF HasOwn(node, id) \/ (apiKey # "" /\ HasOwn(node, apiKey))
    THEN Hit(node, trail)
  ELSE walkKids(node, trail, id, apiKey, 1)
walkKids(node, trail, id, apiKey, i) ==
  IF i > Len(node.kids) THEN NoHit
  ELSE LET r == walk(node.kids[i].v, Append(trail, node.kids[i].k), id, apiKey)
       IN IF r.found THEN r ELSE walkKids(node, trail, id, apiKey, i + 1)

findBlockContainerWithCurrentField(ctx) ==
  LET pPath == parentPath(ctx.fieldPath)
      container == getAtPath(ctx.formValues, pPath)
      info == currentFieldInfo(ctx)
  IN IF IsThrow(container) THEN ThrowHit
     ELSE IF Truthy(container)
             /\ (HasOwn(container, info.id) \/ HasOwn(container, info.apiKey))
       THEN Hit(container, pPath)
     ELSE walk(ctx.formValues, <<>>, info.id, info.apiKey)

\* ctx.fields[apiKeyOrId], else the first descriptor with that API key
findFieldDef(ctx, apiKeyOrId) ==
  LET byId == FindDef(ctx.fields, LAMBDA f : f.id = apiKeyOrId, 1)
  IN IF byId # NoDef THEN byId
     ELSE FindDef(ctx.fields, LAMBDA f : f.apiKey = apiKeyOrId, 1)
isFieldLocalized(def) == def.localized

RECURSIVE FirstOwnedKey(_, _, _)
\* keyCandidates.find((k) => hasOwnProperty.call(container, k)); "" for none
FirstOwnedKey(container, candidates, i) ==
  IF i > Len(candidates) THEN ""
  ELSE IF HasOwn(container, candidates[i]) THEN candidates[i]
  ELSE FirstOwnedKey(container, candidates, i + 1)

\* [String(def.id), def.apiKey ?? def.attributes?.api_key].filter(Boolean)
KeyCandidates(def) == SelectSeq(<<def.id, def.apiKey>>, LAMBDA k : k # "")

\* A resolved path, or null, or a raised exception
NoPath == [kind |-> "null", path |-> EmptyString]
ThrownPath == [kind |-> "throw", path |-> EmptyString]
SomePath(p) == [kind |-> "path", path |-> p]

resolveSiblingPathInBlock(ctx, apiKeyOrId) ==
  LET hit == findBlockContainerWithCurrentField(ctx)
      def == findFieldDef(ctx, apiKeyOrId)
      keyInContainer == FirstOwnedKey(hit.container, KeyCandidates(def), 1)
      locSuffix == IF isFieldLocalized(def) /\ ctx.locale # "" THEN ctx.locale ELSE ""
  IN IF hit.threw THEN ThrownPath
     ELSE IF ~hit.found THEN NoPath
     ELSE IF def = NoDef THEN NoPath
     ELSE IF keyInContainer = "" THEN NoPath
     ELSE SomePath(WithLocSuffix(DotCat(hit.containerPath, keyInContainer), locSuffix))

resolveTopLevelPath(ctx, apiKeyOrId) ==
  LET def == findFieldDef(ctx, apiKeyOrId)
      locSuffix == IF isFieldLocalized(def) /\ ctx.locale # "" THEN ctx.locale ELSE ""
  IN IF def = NoDef THEN NoPath
     ELSE SomePath(WithLocSuffix(<<def.id>>, locSuffix))

\* part_000: the file reference of the sibling in the block found
getSiblingFileFromBlock(ctx, siblingApiKey) ==
  LET hit == findBlockContainerWithCurrentField(ctx)
      def == findFieldDef(ctx, siblingApiKey)
      keyCandidates == IF def # NoDef THEN KeyCandidates(def) ELSE <<siblingApiKey>>
      key == FirstOwnedKey(hit.container, keyCandidates, 1)
      raw == pickAnyLocaleValue(Prop(hit.container, key), ctx.locale)
  IN IF hit.threw THEN Throw
     ELSE IF ~hit.found THEN Null
     ELSE IF key = "" THEN Null
     ELSE IF ~Truthy(raw) THEN Null
     ELSE UploadShape(raw)

\* part_000: the file reference of the top-level file field with this API key
getTopLevelFileValueByApiKey(ctx, apiKey) ==
  LET match == FindDef(ctx.fields,
                       LAMBDA f : f.fieldType = "file" /\ f.apiKey = apiKey, 1)
      raw == pickAnyLocaleValue(Prop(ctx.formValues, match.id), ctx.locale)
  IN IF match = NoDef THEN Null
     ELSE IF ~Truthy(raw) THEN Null
     ELSE UploadShape(raw)

\* part_000: the path setFieldByApiOrId hands to ctx.setFieldValue (null: no call)
setFieldByApiOrIdPath(ctx, apiKeyOrId) ==
  LET sib == resolveSiblingPathInBlock(ctx, apiKeyOrId)
  IN IF sib.kind # "null" THEN sib ELSE resolveTopLevelPath(ctx, apiKeyOrId)

(***************************************************************************)
(* The block-only editor (src/src/main.tsx): the container is the editing  *)
(* path minus the field key, a trailing locale segment dropped first.      *)
(***************************************************************************)
dissectCurrentPath(ctx) ==
  LET parts0 == splitPath(ctx.fieldPath)
      localeWasSuffix == ctx.locale # "" /\ Len(parts0) > 0
                         /\ parts0[Len(parts0)] = ctx.locale
      parts1 == IF localeWasSuffix THEN SubSeq(parts0, 1, Len(parts0) - 1) ELSE parts0
      currentKey == IF Len(parts1) = 0 THEN "" ELSE parts1[Len(parts1)]
      containerPath == IF Len(parts1) = 0 THEN <<>> ELSE SubSeq(parts1, 1, Len(parts1) - 1)
  IN [containerPath |-> containerPath, currentKey |-> currentKey,
      localeWasSuffix |-> localeWasSuffix]

\* allDefs.find((f) => (f.apiKey ?? f.attributes?.api_key) === apiKey)
DefByApiKey(ctx, apiKey) == FindDef(ctx.fields, LAMBDA f : f.apiKey = apiKey, 1)

\* [...containerPath, key].join('.') + locSuffix
JoinedPath(containerPath, key, locSuffix) ==
  WithLocSuffix(Append(containerPath, key), locSuffix)

\* main.tsx: the file reference read at the id path, else at the apiKey path
getSiblingFileFromBlockMain(ctx, siblingApiKey) ==
  LET containerPath == dissectCurrentPath(ctx).containerPath
      root == ctx.formValues
      siblingDef == DefByApiKey(ctx, siblingApiKey)
      isLocalized == siblingDef.localized
      locSuffix == IF isLocalized /\ ctx.locale # "" THEN ctx.locale ELSE ""
      idPath == JoinedPath(containerPath, siblingDef.id, locSuffix)
      normId == normalizeUploadLike(pickAnyLocaleValue(getValueAt(root, idPath), ctx.locale))
      ak == IF siblingDef # NoDef /\ siblingDef.apiKey # "" THEN siblingDef.apiKey
            ELSE siblingApiKey
      akPath == JoinedPath(containerPath, ak, locSuffix)
      normAk == normalizeUploadLike(pickAnyLocaleValue(getValueAt(root, akPath), ctx.locale))
  IN IF siblingDef.id # "" /\ Truthy(normId) THEN normId
     ELSE IF Truthy(normAk) THEN normAk
     ELSE Null

\* main.tsx: the path setSiblingInBlock hands to ctx.setFieldValue (null: no call)
setSiblingInBlockPath(ctx, apiKey) ==
  LET containerPath == dissectCurrentPath(ctx).containerPath
      def == DefByApiKey(ctx, apiKey)
      locSuffix == IF def.localized /\ ctx.locale # "" THEN ctx.locale ELSE ""
  IN IF def.id = "" THEN NoPath
     ELSE SomePath(JoinedPath(containerPath, def.id, locSuffix))

\* part_003: resolveFieldId(ctx, preferred); "" stands for null
resolveFieldId(ctx, preferred) ==
  LET def == findFieldDef(ctx, preferred)
  IN IF def = NoDef THEN "" ELSE def.id

\* part_003: getFieldPath(ctx, apiKeyOrId)
getFieldPath(ctx, apiKeyOrId) ==
  LET id == resolveFieldId(ctx, apiKeyOrId)
  IN IF id = "" THEN NoPath
     ELSE IF ctx.locale # "" THEN SomePath(<<id, ctx.locale>>)
     ELSE SomePath(<<id>>)

(***************************************************************************)
(* Tabular Normalizer and payload.  A cell is a JSON value; a grid is a    *)
(* sequence of rows, each a sequence of cells; a row object is an "obj".   *)
(***************************************************************************)
\* the coercion without its null / undefined case
toStringValueKeepNull(v) ==
  IF IsNullish(v) THEN v
  ELSE IF v.t = "num" /\ v.s = "NaN" THEN Str("")
  ELSE Str(v.s)
\* String(v) keeps the text of a string and the digits of a number
toStringValue(v) ==
  IF IsNullish(v) THEN Str("")
  ELSE IF v.t = "num" /\ v.s = "NaN" THEN Str("")
  ELSE Str(v.s)

ColumnName(i) == "column_" \o ToString(i)
MaxOf(S) == CHOOSE m \in S : \A x \in S : x <= m

\* String(cell ?? '').trim(), the blank strings of the model being "" and " "
TrimmedCell(cell) ==
  IF IsNullish(cell) \/ cell.s \in {"", " "} THEN "" ELSE cell.s
\* the filter looking at the first cell of a row only
DropRowsBlankAtFirstCell(aoa) ==
  SelectSeq(aoa, LAMBDA row : Len(row) >= 1 /\ TrimmedCell(row[1]) # "")
\* aoa.filter(row => row.some(cell => String(cell ?? '').trim() !== ''))
DropBlankRows(aoa) ==
  SelectSeq(aoa, LAMBDA row : \E i \in 1..Len(row) : TrimmedCell(row[i]) # "")

\* normalizeAoA taking the width of the first row for the width of the table
normalizeAoAFirstRow(aoa) ==
  LET maxCols == MaxOf({1} \cup {Len(aoa[r]) : r \in 1..(IF Len(aoa) = 0 THEN 0 ELSE 1)})
      columns == [i \in 1..maxCols |-> ColumnName(i)]
      cell(r, i) == IF i <= Len(aoa[r]) THEN aoa[r][i] ELSE Str("")
  IN [rows |-> [r \in 1..Len(aoa) |->
                  Obj([i \in 1..maxCols |-> KV(columns[i], toStringValue(cell(r, i)))])],
      columns |-> columns]

normalizeAoA(aoa) ==
  LET maxCols == MaxOf({1} \cup {Len(aoa[r]) : r \in 1..Len(aoa)})
      columns == [i \in 1..maxCols |-> ColumnName(i)]
      cell(r, i) == IF i <= Len(aoa[r]) THEN aoa[r][i] ELSE Str("")
  IN [rows |-> [r \in 1..Len(aoa) |->
                  Obj([i \in 1..maxCols |-> KV(columns[i], toStringValue(cell(r, i)))])],
      columns |-> columns]

\* normalizeSheetRowsStrings naming its columns from zero
normalizeSheetRowsStringsFromZero(rows) ==
  IF Len(rows) = 0 THEN [rows |-> <<>>, columns |-> <<>>]
  ELSE LET colCount == MaxOf({1, Len(rows[1].kids)})
           columns == [i \in 1..colCount |-> ColumnName(i - 1)]
           value(r, i) == IF i <= Len(rows[r].kids) THEN rows[r].kids[i].v ELSE Undefined
       IN [rows |-> [r \in 1..Len(rows) |->
                       Obj([i \in 1..colCount |-> KV(columns[i], toStringValue(value(r, i)))])],
           columns |-> columns]

normalizeSheetRowsStrings(rows) ==
  IF Len(rows) = 0 THEN [rows |-> <<>>, columns |-> <<>>]
  ELSE LET colCount == MaxOf({1, Len(rows[1].kids)})
           columns == [i \in 1..colCount |-> ColumnName(i)]
           value(r, i) == IF i <= Len(rows[r].kids) THEN rows[r].kids[i].v ELSE Undefined
       IN [rows |-> [r \in 1..Len(rows) |->
                       Obj([i \in 1..colCount |-> KV(columns[i], toStringValue(value(r, i)))])],
           columns |-> columns]

\* rows.map((r) => columns.map((c) => r[c] ?? ''))
DataMatrix(rows, columns) ==
  Arr([r \in 1..Len(rows) |->
         Arr([i \in 1..Len(columns) |->
                IF IsNullish(Prop(rows[r], columns[i])) THEN Str("")
                ELSE Prop(rows[r], columns[i])])])

\* { columns, data, meta: { filename, nonce, ... } }
PayloadObj(rows, columns, filename, nonce) ==
  Obj(<<KV("columns", Arr([i \in 1..Len(columns) |-> Str(columns[i])])),
        KV("data", DataMatrix(rows, columns)),
        KV("meta", Obj(<<KV("filename", filename), KV("nonce", Num(nonce))>>))>>)

\* JSON.stringify(obj): a string whose text is the serialization of obj
Stringify(obj) == [t |-> "str", s |-> "json:" \o obj.t, kids |-> obj.kids]
\* JSON.parse of such a string
ParseJson(str) == [t |-> "obj", s |-> "", kids |-> str.kids]

(***************************************************************************)
(* State.                                                                  *)
(*  host context : formValues, fieldPath, locale, srcLocalized             *)
(*  resolver run : target (the API key asked for), op (the function last   *)
(*                 applied), resPath / resFile (what it returned)          *)
(*  editor       : variant (which copy of the editor runs), jsonField (the   *)
(*                 edited field is a JSON field, else a text field),       *)
(*                 cmaToken, busy, notice, toast (ctx.notice), table (the  *)
(*                 rows / columns React state), chains (every handler      *)
(*                 invocation started so far), lastWriter (the chain whose *)
(*                 non-null write to ctx.fieldPath the host applied last)  *)
(*  function run : arg (the input drawn for a pure function), out (what    *)
(*                 the function named by op returned for it)               *)
(***************************************************************************)
VARIABLES formValues, fieldPath, locale, srcLocalized, target, op, resPath, resFile
VARIABLES variant, jsonField, cmaToken, busy, notice, toast, table, chains, lastWriter
VARIABLES arg, out

ctxVars == <<formValues, fieldPath, locale, srcLocalized>>
resVars == <<target, op, resPath, resFile>>
cfgVars == <<variant, jsonField, cmaToken>>
edVars == <<variant, jsonField, cmaToken, busy, notice, toast, table, chains, lastWriter>>
pureVars == <<arg, out>>

\* The content model: the file field, the edited JSON field, the two meta fields
SourceDef(loc) == [id |-> "55", apiKey |-> "sourcefile", localized |-> loc,
                   fieldType |-> "file"]
CurrentDef == [id |-> "56", apiKey |-> "datajson", localized |-> FALSE,
               fieldType |-> "json"]
ColumnsDef == [id |-> "57", apiKey |-> "columnsmeta", localized |-> FALSE,
               fieldType |-> "json"]
RowCountDef == [id |-> "58", apiKey |-> "rowcount", localized |-> FALSE,
                fieldType |-> "integer"]
Fields(loc) == <<SourceDef(loc), CurrentDef, ColumnsDef, RowCountDef>>

Ctx == [formValues |-> formValues, fieldPath |-> fieldPath, locale |-> locale,
        fields |-> Fields(srcLocalized), field |-> CurrentDef]

(***************************************************************************)
(* The record trees SpecResolve draws from: a record with a repeatable     *)
(* block field "blocks" of up to MaxBlocks instances, each instance one of *)
(* BlockKinds, with or without a file at the record's top level.  The      *)
(* upload of instance i has id "u<i>", so that instances can be told apart.*)
(***************************************************************************)
MaxBlocks == 2

UploadOf(tag) == Obj(<<KV("upload_id", Str(tag)), KV("alt", Null)>>)
NestedUploadOf(tag) == Obj(<<KV("upload", Obj(<<KV("id", Str(tag))>>))>>)
InstTag(i) == "u" \o ToString(i)

BlockKinds == {"byId", "byApiKey", "localized", "noSource", "sourceOnly",
               "bothKeys", "bothKeysIdEmpty", "emptySource", "wrapped", "scalar"}

\* Integer-like keys come first in Object.keys order, in ascending order
Block(kind, i) ==
  CASE kind = "byId" ->
         Obj(<<KV("55", UploadOf(InstTag(i))), KV("56", Str("")), KV("57", Null)>>)
    [] kind = "byApiKey" ->
         Obj(<<KV("sourcefile", UploadOf(InstTag(i))), KV("datajson", Str("")),
               KV("columnsmeta", Null)>>)
    [] kind = "localized" ->
         Obj(<<KV("55", Obj(<<KV("en", UploadOf(InstTag(i)))>>)),
               KV("56", Obj(<<KV("en", Str(""))>>))>>)
    [] kind = "noSource" -> Obj(<<KV("56", Str("x"))>>)
    [] kind = "sourceOnly" -> Obj(<<KV("55", Arr(<<NestedUploadOf(InstTag(i))>>))>>)
    [] kind = "bothKeys" ->
         Obj(<<KV("55", UploadOf(InstTag(i))), KV("56", Null),
               KV("sourcefile", UploadOf("apikey" \o ToString(i)))>>)
    [] kind = "bothKeysIdEmpty" ->
         Obj(<<KV("55", Null), KV("56", Str("")),
               KV("sourcefile", Arr(<<UploadOf("apikey" \o ToString(i))>>))>>)
    [] kind = "emptySource" -> Obj(<<KV("55", Null), KV("56", Str(""))>>)
    [] kind = "wrapped" ->
         Obj(<<KV("56", Str("")),
               KV("inner", Obj(<<KV("55", Str("http://files/a.xlsx")), KV("56", Str(""))>>))>>)
    [] OTHER -> IF i % 2 = 0 THEN Null ELSE Str("text")

BlockLists == UNION {[1..n -> BlockKinds] : n \in 0..MaxBlocks}
TopKinds == {"none", "file"}

Tree(top, kinds) ==
  LET blocks == KV("blocks", Arr([i \in 1..Len(kinds) |-> Block(kinds[i], i - 1)]))
  IN IF top = "file"
       THEN Obj(<<KV("55", UploadOf("top")), KV("56", Null), blocks>>)
       ELSE Obj(<<blocks>>)

Trees == {Tree(top, kinds) : top \in TopKinds, kinds \in BlockLists}

\* Editing field paths: in a block instance (by id or API key, with or
\* without a trailing locale segment, or one level deeper), at the top
\* level, and through a node that does not exist
FieldPaths ==
  UNION {{<<"blocks", IndexKey(i), "56">>, <<"blocks", IndexKey(i), "datajson">>,
          <<"blocks", IndexKey(i), "56", "en">>, <<"blocks", IndexKey(i), "inner", "56">>}
         : i \in 1..MaxBlocks}
  \cup {<<"56">>, <<"56", "en">>, <<"nosuch", "56">>}

Locales == {"", "en"}
Targets == {"sourcefile", "columnsmeta", "missingkey"}

(***************************************************************************)
(* SpecResolve: one application of a resolver function to a drawn context. *)
(***************************************************************************)
vars == <<formValues, fieldPath, locale, srcLocalized, target, op, resPath, resFile,
          variant, jsonField, cmaToken, busy, notice, toast, table, chains, lastWriter,
          arg, out>>

\* no input drawn, nothing returned
NoArg == [kind |-> "none", grid |-> <<>>, n |-> 0, val |-> Undefined]
NoOut == [rows |-> <<>>, columns |-> <<>>, val |-> Undefined]
\* the rows / columns / selectedMeta state before anything is imported
EmptyTable == [rows |-> <<>>, columns |-> <<>>, selected |-> Null]

InitResolve ==
  /\ formValues \in Trees
  /\ fieldPath \in FieldPaths
  /\ locale \in Locales
  /\ srcLocalized \in BOOLEAN
  /\ target \in Targets
  /\ op = "none"
  /\ resPath = NoPath
  /\ resFile = Null
  /\ variant = "aware"
  /\ jsonField = TRUE
  /\ cmaToken = ""
  /\ busy = FALSE
  /\ notice = "none"
  /\ toast = "none"
  /\ table = EmptyTable
  /\ chains = <<>>
  /\ lastWriter = 0
  /\ arg = NoArg
  /\ out = NoOut

\* part_000: resolveSiblingPathInBlock(ctx, target)
ResolveSiblingPath ==
  /\ op = "none"
  /\ op' = "resolveSiblingPathInBlock"
  /\ resPath' = resolveSiblingPathInBlock(Ctx, target)
  /\ UNCHANGED <<ctxVars, target, resFile, edVars, pureVars>>

\* part_000: getSiblingFileFromBlock(ctx, target)
GetSiblingFile ==
  /\ op = "none"
  /\ op' = "getSiblingFileFromBlock"
  /\ resFile' = getSiblingFileFromBlock(Ctx, target)
  /\ UNCHANGED <<ctxVars, target, resPath, edVars, pureVars>>

\* main.tsx: getSiblingFileFromBlock(ctx, target)
GetSiblingFileMain ==
  /\ op = "none"
  /\ op' = "getSiblingFileFromBlockMain"
  /\ resFile' = getSiblingFileFromBlockMain(Ctx, target)
  /\ UNCHANGED <<ctxVars, target, resPath, edVars, pureVars>>

\* main.tsx: setSiblingInBlock(ctx, target, value), the path it writes to
SetSiblingInBlock ==
  /\ op = "none"
  /\ op' = "setSiblingInBlock"
  /\ resPath' = setSiblingInBlockPath(Ctx, target)
  /\ UNCHANGED <<ctxVars, target, resFile, edVars, pureVars>>

\* part_000: resolveTopLevelPath(ctx, target)
ResolveTopLevelPath ==
  /\ op = "none"
  /\ op' = "resolveTopLevelPath"
  /\ resPath' = resolveTopLevelPath(Ctx, target)
  /\ UNCHANGED <<ctxVars, target, resFile, edVars, pureVars>>

\* part_003 / part_005: getFieldPath(ctx, target)
GetFieldPath ==
  /\ op = "none"
  /\ op' = "getFieldPath"
  /\ resPath' = getFieldPath(Ctx, target)
  /\ UNCHANGED <<ctxVars, target, resFile, edVars, pureVars>>

NextResolve ==
  \/ ResolveSiblingPath
  \/ GetSiblingFile
  \/ GetSiblingFileMain
  \/ SetSiblingInBlock
  \/ ResolveTopLevelPath
  \/ GetFieldPath

SpecResolve == InitResolve /\ [][NextResolve]_vars

(***************************************************************************)
(* Vocabulary of the resolver claims.                                      *)
(***************************************************************************)
RECURSIVE NodePaths(_, _)
\* the paths (segment sequences) of all objects and arrays of a tree
NodePaths(node, trail) ==
  IF ~IsObjectLike(node) THEN {}
  ELSE {trail} \cup UNION {NodePaths(node.kids[i].v, Append(trail, node.kids[i].k))
                           : i \in 1..Len(node.kids)}

NodeAt(segs) == getValueAt(formValues, segs)

\* the keys a node may store the current (edited) field / the target under
EditKeys == {CurrentDef.id, CurrentDef.apiKey}
TargetDef == findFieldDef(Ctx, target)
TargetKeys == IF TargetDef = NoDef THEN {target} ELSE {TargetDef.id, TargetDef.apiKey}
OwnsEdit(node) == \E k \in EditKeys : HasOwn(node, k)
OwnsTarget(node) == \E k \in TargetKeys : HasOwn(node, k)

\* the editing path as the host means it: container, field key, optional locale
PathSegs == splitPath(fieldPath)
HasLocaleTail == Len(PathSegs) >= 2 /\ PathSegs[Len(PathSegs)] \in (Locales \ {""})
KeySegs == IF HasLocaleTail THEN SubSeq(PathSegs, 1, Len(PathSegs) - 1) ELSE PathSegs
EditKey == KeySegs[Len(KeySegs)]
EnclosingPath == SubSeq(KeySegs, 1, Len(KeySegs) - 1)
Enclosing == NodeAt(EnclosingPath)
\* the host's context is coherent: the edited field is stored at fieldPath,
\* under its id or API key, and a locale tail is the active locale
EditedFieldInPlace ==
  /\ Len(KeySegs) >= 1
  /\ EditKey \in EditKeys
  /\ Enclosing.t = "obj"
  /\ HasOwn(Enclosing, EditKey)
  /\ HasLocaleTail => locale = PathSegs[Len(PathSegs)]

\* a resolved path without the locale the resolver may have appended
StripLocale(segs) ==
  IF Len(segs) >= 1 /\ segs[Len(segs)] \in (Locales \ {""})
    THEN SubSeq(segs, 1, Len(segs) - 1) ELSE segs
ResolvedSegs == StripLocale(splitPath(resPath.path))

PathOps == {"resolveSiblingPathInBlock", "setSiblingInBlock"}
FileOps == {"getSiblingFileFromBlock", "getSiblingFileFromBlockMain"}

\* the upload id (or direct URL) a file reference carries
RefId(ref) ==
  IF Truthy(Prop(ref, "upload_id")) THEN Prop(ref, "upload_id")
  ELSE Prop(ref, "__direct_url")
RECURSIVE IdsIn(_)
\* every upload id / URL stored anywhere in a field value
IdsIn(v) ==
  IF v.t = "str" THEN {v}
  ELSE IF ~IsObjectLike(v) THEN {}
  ELSE UNION {IdsIn(v.kids[i].v) : i \in 1..Len(v.kids)}

(***************************************************************************)
(* The Uploader editor.  Three copies of it are modelled:                  *)
(*   "block"  : src/src/main.tsx, lines 200-328 (importFromBlock, a        *)
(*              saveAndPublish that only saves, no Force re-import)        *)
(*   "strict" : src/unnamed/part_003 (importFromSource reading the         *)
(*              configured top-level field, a saveAndPublish that writes   *)
(*              the table state, the Force re-import button)               *)
(*   "aware"  : src/unnamed/part_000 (importFromSource reading the sibling *)
(*              in the block, else the top-level field; setFieldByApiOrId; *)
(*              a saveAndPublish that writes the table state)              *)
(* A chain is one invocation of a button handler.  Between two awaits a    *)
(* handler runs to completion, so one action is the code from one awaited  *)
(* promise settling up to the next await; React renders after each.        *)
(***************************************************************************)
MaxChains == 2

Variants == {"block", "strict"}

\* what the sheet parser hands back: row objects (sheet_to_json with
\* defval null) for "strict", arrays of cells (header: 1) for "block"
ParsedRowSets ==
  {<<Obj(<<KV("Name", Str("Alice")), KV("Age", Num("30"))>>),
     Obj(<<KV("Name", Str("Bob")), KV("Age", Null)>>)>>,
   <<Obj(<<KV("h", Str("x"))>>)>>}
ParsedAoASets ==
  {<<<<Str("Alice"), Num("30")>>, <<Str(""), Str(" ")>>, <<Str("Bob")>>>>,
   <<<<Str("x")>>>>}

\* the stored value of the configured file field
FileRaws == {Null, UploadOf("u0"), Arr(<<UploadOf("u0")>>), Str("http://files/a.xlsx")}

\* the value writePayload hands to the host for a payload object
WriteValue(json, payloadObj) == IF json THEN payloadObj ELSE Stringify(payloadObj)

OldPayload ==
  LET n == normalizeSheetRowsStrings(<<Obj(<<KV("h", Str("x"))>>)>>)
  IN PayloadObj(n.rows, n.columns, Str("a.xlsx"), "1")

\* the host's ctx.setFieldValue(path, value) once applied to the form
RECURSIVE SetAtPath(_, _, _)
SetAtPath(node, segs, value) ==
  IF segs = <<>> THEN value
  ELSE LET key == Head(segs)
           rest == Tail(segs)
       IN IF IsObjectLike(node) /\ HasOwn(node, key)
            THEN [node EXCEPT !.kids =
                    [i \in 1..Len(node.kids) |->
                       IF node.kids[i].k = key
                         THEN KV(key, SetAtPath(node.kids[i].v, rest, value))
                         ELSE node.kids[i]]]
          ELSE IF IsObjectLike(node)
            THEN [node EXCEPT !.kids = Append(node.kids, KV(key, SetAtPath(Undefined, rest, value)))]
          ELSE Obj(<<KV(key, SetAtPath(Undefined, rest, value))>>)

\* the value the form holds at ctx.fieldPath
FieldValue == getAtPath(formValues, fieldPath)

\* part_003: getFileFieldValueStrict(), the value it returns
getFileFieldValueStrict(ctx, preferredApiKey) ==
  LET fileFieldId == resolveFieldId(ctx, preferredApiKey)
      raw1 == pickAnyLocaleValue(Prop(ctx.formValues, fileFieldId), ctx.locale)
  IN IF fileFieldId = "" THEN Null
     ELSE IF ~Truthy(raw1) THEN Null
     ELSE UploadShape(raw1)

\* the useEffect keeping rows / columns in sync with the stored value
SyncedTable(v, json, fv, path, tbl) ==
  IF v = "block" \/ Len(path) # 1 THEN tbl
  ELSE LET initial == Prop(fv, path[1])
           value == IF json THEN initial
                    ELSE IF Truthy(initial) THEN ParseJson(initial) ELSE Null
       IN IF IsObjectLike(value) /\ Truthy(Prop(value, "columns"))
             /\ Truthy(Prop(value, "data"))
            THEN LET cols == Prop(value, "columns").kids
                     data == Prop(value, "data").kids
                 IN [tbl EXCEPT
                     !.columns = [i \in 1..Len(cols) |-> cols[i].v.s],
                     !.rows = [r \in 1..Len(data) |->
                                 Obj([i \in 1..Len(cols) |->
                                        KV(cols[i].v.s,
                                           IF i <= Len(data[r].v.kids)
                                             THEN data[r].v.kids[i].v ELSE Str(""))])]]
          ELSE tbl

(***************************************************************************)
(* Chains.                                                                 *)
(*   kind    : "import" | "save" | "force"                                 *)
(*   pc      : the await the chain is suspended at, "done" once settled    *)
(*   outcome : "running" | "ok" | "notice" (returned early after a notice) *)
(*             | "caught" (the catch block ran) | "escaped" (the promise   *)
(*             of the handler rejected)                                    *)
(*   pre     : the value at ctx.fieldPath when the button was pressed      *)
(*   stale   : the notice state captured by the handler's closure          *)
(*   call    : the pending ctx.setFieldValue(path, value)                  *)
(*   wpi     : the position in writePayload's calls                        *)
(*   trace   : what the chain did to ctx.fieldPath, in order               *)
(***************************************************************************)
MaxClock == 2

NoCall == [path |-> <<>>, value |-> Undefined]
SetCall(path, value) == [path |-> path, value |-> value]

InFlight(c) == chains[c].pc # "done"
Overlapping == \E d \in 1..Len(chains) : InFlight(d)

\* Date.now(): never earlier than a value read before
Clock == {n \in 1..MaxClock : \A d \in 1..Len(chains) : chains[d].nonce <= n}

NewChain(kind) ==
  [kind |-> kind, pc |-> "start", outcome |-> "running", pre |-> FieldValue,
   stale |-> notice, file |-> Null, url |-> "", filename |-> Null, nonce |-> 0,
   payload |-> Null, call |-> NoCall, wpi |-> 0, trace |-> <<>>,
   overlapped |-> Overlapping]

Finish(ch, outcome) ==
  [ch EXCEPT !.pc = "done", !.outcome = outcome, !.call = NoCall, !.wpi = 0,
             !.file = Null, !.url = "", !.filename = Null]

EvCall(value) == IF value = Null THEN "callNull" ELSE "callValue"
EvDone(value) == IF value = Null THEN "doneNull" ELSE "doneValue"

\* writePayload without its clearing write
writePayloadDirect(json, payloadObj) == <<WriteValue(json, payloadObj)>>
\* writePayload clearing after the value instead of before
writePayloadClearLast(json, payloadObj) == <<WriteValue(json, payloadObj), Null>>
\* writePayload: the values it hands to ctx.setFieldValue(ctx.fieldPath, .),
\* in order, awaiting each and yielding between two
writePayload(json, payloadObj) == <<Null, WriteValue(json, payloadObj)>>

\* the handler saving the record in place of the payload write
SaveBeforeWrite(ch, payloadObj) ==
  [ch EXCEPT !.pc = "save", !.payload = payloadObj, !.call = NoCall, !.wpi = 0]
\* await writePayload(ctx, payloadObj), up to its first await
BeginWrite(ch, payloadObj) ==
  LET first == writePayload(jsonField, payloadObj)[1]
  IN [ch EXCEPT !.pc = "write", !.payload = payloadObj, !.wpi = 1,
                !.call = SetCall(fieldPath, first),
                !.trace = Append(@, EvCall(first))]

\* the path of a meta sibling: setSiblingInBlock / setFieldByApiOrId
MetaPath(apiKey) ==
  IF variant = "block" THEN setSiblingInBlockPath(Ctx, apiKey)
  ELSE IF variant = "aware" THEN setFieldByApiOrIdPath(Ctx, apiKey)
  ELSE getFieldPath(Ctx, apiKey)

AfterCount(ch) == [ch EXCEPT !.pc = "save", !.call = NoCall, !.wpi = 0]

AfterCols(ch) ==
  LET p == MetaPath("rowcount")
      n == Len(Prop(ch.payload, "data").kids)
  IN IF p.kind = "path"
       THEN [ch EXCEPT !.pc = "set_count", !.wpi = 0,
                       !.call = SetCall(p.path, Num(ToString(n)))]
       ELSE AfterCount(ch)

\* what follows writePayload in the handler
AfterWrite(ch) ==
  LET p == MetaPath("columnsmeta")
  IN IF ch.kind = "save" THEN AfterCount(ch)
     ELSE IF p.kind = "path"
       THEN [ch EXCEPT !.pc = "set_cols", !.wpi = 0,
                       !.call = SetCall(p.path, Obj(<<KV("columns", Prop(ch.payload, "columns"))>>))]
     ELSE AfterCols(ch)

\* decodeURIComponent(new URL(url).pathname.split('/').pop() || '')
FileNameOf(url) == IF url = "http://files/a.xlsx" THEN Str("a.xlsx") ELSE Str("b.csv")

\* the uploads the Content Management API may answer with
UploadRecords ==
  {[url |-> Null, mime |-> Null, filename |-> Null],
   [url |-> Str("http://files/a.xlsx"), mime |-> Str("image/png"), filename |-> Str("a.png")],
   [url |-> Str("https://files/b.csv?x=1"), mime |-> Str("text/csv"), filename |-> Str("b.csv")]}

IsImageMime(mime) == mime = Str("image/png")

\* The outcome of a stretch of handler code: the chain, busy, notice, table
Step(ch, b, n, t) == [ch |-> ch, busy |-> b, notice |-> n, table |-> t]

\* importFrom*: from a resolved meta up to the fetch
AfterMeta(ch, meta, now, tbl) ==
  LET tbl1 == IF variant # "block" /\ Truthy(meta.url)
                THEN [tbl EXCEPT !.selected = meta.filename] ELSE tbl
  IN IF ~Truthy(meta.url) THEN Step(Finish(ch, "notice"), FALSE, "nourl", tbl1)
     ELSE IF Truthy(meta.mime) /\ IsImageMime(meta.mime)
       THEN Step(Finish(ch, "notice"), FALSE, "image", tbl1)
     ELSE Step([ch EXCEPT !.pc = "fetch", !.url = meta.url.s, !.nonce = now,
                          !.filename = meta.filename],
               TRUE, "none", tbl1)

\* a || b, an exception raised by a propagating
OrElse(a, b) == IF IsThrow(a) \/ Truthy(a) THEN a ELSE b

\* importFrom*: from the file value read up to the first await
ImportWith(ch, now, tbl, fileVal) ==
  IF IsThrow(fileVal) THEN Step(Finish(ch, "caught"), FALSE, "failed", tbl)
  ELSE IF ~Truthy(fileVal)
    THEN Step(Finish(ch, "notice"), FALSE,
              IF variant = "strict" /\ ch.stale # "none" THEN "none"
              ELSE IF variant = "aware" THEN "filelist" ELSE "nofile",
              tbl)
  ELSE IF Truthy(Prop(fileVal, "upload_id"))
    THEN IF cmaToken = ""
           THEN Step(Finish(ch, "notice"), FALSE, "nourl", tbl)
           ELSE Step([ch EXCEPT !.pc = "meta", !.file = fileVal], TRUE, "none", tbl)
  ELSE IF Truthy(Prop(fileVal, "__direct_url"))
    THEN AfterMeta(ch, [url |-> Prop(fileVal, "__direct_url"), mime |-> Null,
                        filename |-> FileNameOf(Prop(fileVal, "__direct_url").s)],
                   now, tbl)
  ELSE Step(Finish(ch, "notice"), FALSE, "nourl", tbl)

\* importFromBlock / importFromSource: from its first line up to its first await
ImportHead(ch, now, tbl) ==
  LET fileVal == IF variant = "block"
                   THEN getSiblingFileFromBlockMain(Ctx, "sourcefile")
                 ELSE IF variant = "aware"
                   THEN OrElse(getSiblingFileFromBlock(Ctx, "sourcefile"),
                               getTopLevelFileValueByApiKey(Ctx, "sourcefile"))
                 ELSE getFileFieldValueStrict(Ctx, "sourcefile")
  IN ImportWith(ch, now, tbl, fileVal)

(***************************************************************************)
(* Spec: the editor mounted on a record, its buttons pressed and the       *)
(* promises it awaits settled by the host and the network in any order.    *)
(***************************************************************************)
StoredFields(fileRaw, old) ==
  Obj(<<KV("55", fileRaw), KV("56", old), KV("57", Null), KV("58", Null)>>)

Init ==
  /\ variant \in Variants
  /\ jsonField \in BOOLEAN
  /\ cmaToken \in {"", "tok"}
  /\ locale = ""
  /\ srcLocalized = FALSE
  /\ \E fileRaw \in FileRaws, old \in {Null, WriteValue(jsonField, OldPayload)} :
       IF variant = "block"
         THEN /\ formValues = Obj(<<KV("blocks", Arr(<<StoredFields(fileRaw, old)>>))>>)
              /\ fieldPath = <<"blocks", "0", "56">>
         ELSE /\ formValues = StoredFields(fileRaw, old)
              /\ fieldPath = <<"56">>
  /\ busy = FALSE
  /\ notice = "none"
  /\ toast = "none"
  /\ table = SyncedTable(variant, jsonField, formValues, fieldPath, EmptyTable)
  /\ chains = <<>>
  /\ lastWriter = 0
  /\ arg = NoArg
  /\ out = NoOut
  /\ target = "sourcefile"
  /\ op = "none"
  /\ resPath = NoPath
  /\ resFile = Null

\* the buttons are rendered with disabled={busy}
CanClick == ~busy /\ Len(chains) < MaxChains

Apply(c, r) ==
  /\ chains' = [chains EXCEPT ![c] = r.ch]
  /\ busy' = r.busy
  /\ notice' = r.notice
  /\ table' = r.table

\* "Import from Excel/CSV": importFromBlock() / importFromSource()
ImportClick ==
  /\ CanClick
  /\ \E now \in Clock :
       LET r == ImportHead(NewChain("import"), now, table)
       IN /\ chains' = Append(chains, r.ch)
          /\ busy' = r.busy
          /\ notice' = r.notice
          /\ table' = r.table
  /\ UNCHANGED <<ctxVars, resVars, pureVars, cfgVars, toast, lastWriter>>

\* the payload saveAndPublish builds from the rows / columns state
SavePayload(tbl, now) ==
  Obj(<<KV("columns", Arr([i \in 1..Len(tbl.columns) |-> Str(tbl.columns[i])])),
        KV("data", DataMatrix(tbl.rows, tbl.columns)),
        KV("meta", Obj((IF tbl.selected = Null THEN <<>>
                        ELSE <<KV("filename", tbl.selected)>>)
                       \o <<KV("nonce", Num(ToString(now)))>>))>>)

\* "Save & Publish": saveAndPublish()
SaveAndPublishClick ==
  /\ CanClick
  /\ \E now \in Clock :
       chains' = Append(chains,
                   IF variant = "block"
                     THEN AfterCount(NewChain("save"))
                     ELSE BeginWrite([NewChain("save") EXCEPT !.nonce = now],
                                     SavePayload(table, now)))
  /\ busy' = TRUE
  /\ notice' = "none"
  /\ UNCHANGED <<ctxVars, resVars, pureVars, cfgVars, toast, table, lastWriter>>

\* "Force re-import": the handler up to its await ctx.setFieldValue(ctx.fieldPath, null)
ForceReimportClick ==
  /\ variant = "strict"
  /\ CanClick
  /\ chains' = Append(chains,
                 [NewChain("force") EXCEPT !.pc = "force_null",
                                           !.call = SetCall(fieldPath, Null),
                                           !.trace = <<EvCall(Null)>>])
  /\ UNCHANGED <<ctxVars, resVars, pureVars, cfgVars, busy, notice, toast, table, lastWriter>>

\* the host applies a pending ctx.setFieldValue and renders the editor again
HostApplies(c) ==
  /\ formValues' = SetAtPath(formValues, splitPath(chains[c].call.path), chains[c].call.value)
  /\ lastWriter' = IF splitPath(chains[c].call.path) = splitPath(fieldPath)
                      /\ chains[c].call.value # Null
                     THEN c ELSE lastWriter

\* Force re-import: the clearing write resolved; yield; importFromSource()
ForceNullResolve(c) ==
  /\ chains[c].pc = "force_null"
  /\ HostApplies(c)
  /\ \E now \in Clock :
       LET ch == [chains[c] EXCEPT !.trace = @ \o <<EvDone(Null), "yield">>,
                                   !.call = NoCall]
           tbl == SyncedTable(variant, jsonField, formValues', fieldPath, table)
       IN Apply(c, ImportHead(ch, now, tbl))
  /\ UNCHANGED <<fieldPath, locale, srcLocalized, resVars, pureVars, cfgVars, toast>>

\* Force re-import: the clearing write rejected, outside any try
ForceNullReject(c) ==
  /\ chains[c].pc = "force_null"
  /\ chains' = [chains EXCEPT ![c] = Finish(@, "escaped")]
  /\ UNCHANGED <<ctxVars, resVars, pureVars, cfgVars, busy, notice, toast, table, lastWriter>>

\* a ctx.setFieldValue awaited inside the try resolved
HostSetResolve(c) ==
  /\ chains[c].pc \in {"write", "set_cols", "set_count"}
  /\ HostApplies(c)
  /\ LET ch == chains[c]
         calls == writePayload(jsonField, ch.payload)
         done == [ch EXCEPT !.trace = Append(@, EvDone(ch.call.value))]
     IN chains' = [chains EXCEPT ![c] =
          IF ch.pc = "write" /\ ch.wpi < Len(calls)
            THEN [done EXCEPT !.wpi = ch.wpi + 1,
                              !.call = SetCall(fieldPath, calls[ch.wpi + 1]),
                              !.trace = @ \o <<"yield", EvCall(calls[ch.wpi + 1])>>]
          ELSE IF ch.pc = "write" THEN AfterWrite(done)
          ELSE IF ch.pc = "set_cols" THEN AfterCols(ch)
          ELSE AfterCount(ch)]
  /\ table' = SyncedTable(variant, jsonField, formValues', fieldPath, table)
  /\ UNCHANGED <<fieldPath, locale, srcLocalized, resVars, pureVars, cfgVars, busy, notice, toast>>

\* client.uploads.find resolved
MetaResolve(c) ==
  /\ chains[c].pc = "meta"
  /\ \E upload \in UploadRecords, now \in Clock :
       Apply(c, AfterMeta(chains[c], upload, now, table))
  /\ UNCHANGED <<ctxVars, resVars, pureVars, cfgVars, toast, lastWriter>>

\* fetch resolved, with res.ok or without
FetchResolve(c) ==
  /\ chains[c].pc = "fetch"
  /\ \E ok \in BOOLEAN :
       IF ok THEN Apply(c, Step([chains[c] EXCEPT !.pc = "body"], busy, notice, table))
       ELSE Apply(c, Step(Finish(chains[c], "caught"), FALSE, "failed", table))
  /\ UNCHANGED <<ctxVars, resVars, pureVars, cfgVars, toast, lastWriter>>

\* the body was read and parsed: normalize, build the payload, writePayload
BodyResolve(c) ==
  /\ chains[c].pc = "body"
  /\ \E g \in (IF variant = "block" THEN ParsedAoASets ELSE ParsedRowSets) :
       LET norm == IF variant = "block" THEN normalizeAoA(DropBlankRows(g))
                   ELSE normalizeSheetRowsStrings(g)
           payloadObj == PayloadObj(norm.rows, norm.columns, chains[c].filename,
                                    ToString(chains[c].nonce))
       IN /\ chains' = [chains EXCEPT ![c] = BeginWrite(@, payloadObj)]
          /\ table' = IF variant # "block"
                        THEN [table EXCEPT !.rows = norm.rows, !.columns = norm.columns]
                        ELSE table
  /\ UNCHANGED <<ctxVars, resVars, pureVars, cfgVars, busy, notice, toast, lastWriter>>

\* ctx.saveCurrentItem resolved
SaveResolve(c) ==
  /\ chains[c].pc = "save"
  /\ IF chains[c].kind = "save" /\ cmaToken # ""
       THEN /\ chains' = [chains EXCEPT ![c].pc = "publish"]
            /\ UNCHANGED <<busy, notice, toast>>
       ELSE /\ chains' = [chains EXCEPT ![c] = Finish(@, "ok")]
            /\ busy' = FALSE
            /\ notice' = IF chains[c].kind = "save" THEN "saved" ELSE notice
            /\ toast' = IF chains[c].kind = "save" THEN toast ELSE "imported"
  /\ UNCHANGED <<ctxVars, resVars, pureVars, cfgVars, table, lastWriter>>

\* client.items.publish resolved
PublishResolve(c) ==
  /\ chains[c].pc = "publish"
  /\ chains' = [chains EXCEPT ![c] = Finish(@, "ok")]
  /\ busy' = FALSE
  /\ toast' = "published"
  /\ UNCHANGED <<ctxVars, resVars, pureVars, cfgVars, notice, table, lastWriter>>

\* the catch block without the finally
CaughtWithoutFinally(c) ==
  /\ chains[c].pc \in {"meta", "fetch", "body", "write", "set_cols", "set_count",
                       "save", "publish"}
  /\ chains' = [chains EXCEPT ![c] = Finish(@, "caught")]
  /\ notice' = "failed"
  /\ UNCHANGED <<ctxVars, resVars, pureVars, cfgVars, busy, toast, table, lastWriter>>

\* an await inside the try rejected (or the parser threw): catch, finally
Caught(c) ==
  /\ chains[c].pc \in {"meta", "fetch", "body", "write", "set_cols", "set_count",
                       "save", "publish"}
  /\ chains' = [chains EXCEPT ![c] = Finish(@, "caught")]
  /\ busy' = FALSE
  /\ notice' = "failed"
  /\ UNCHANGED <<ctxVars, resVars, pureVars, cfgVars, toast, table, lastWriter>>

Next ==
  \/ ImportClick
  \/ SaveAndPublishClick
  \/ ForceReimportClick
  \/ \E c \in 1..Len(chains) : ForceNullResolve(c)
  \/ \E c \in 1..Len(chains) : ForceNullReject(c)
  \/ \E c \in 1..Len(chains) : HostSetResolve(c)
  \/ \E c \in 1..Len(chains) : MetaResolve(c)
  \/ \E c \in 1..Len(chains) : FetchResolve(c)
  \/ \E c \in 1..Len(chains) : BodyResolve(c)
  \/ \E c \in 1..Len(chains) : SaveResolve(c)
  \/ \E c \in 1..Len(chains) : PublishResolve(c)
  \/ \E c \in 1..Len(chains) : Caught(c)

Spec == Init /\ [][Next]_vars

(***************************************************************************)
(* SpecTable: the older "table" editor (src/unnamed/part_001, part_002,    *)
(* part_004): importFromSource reading the configured top-level file       *)
(* field, the "Pick file (debug)" button of part_004, and saveJson.  The   *)
(* rows state is table.rows; a chain also records what it asked of the     *)
(* network and of the host:                                                *)
(*   ref    : the file value importFromSource resolved                     *)
(*   remote : the client.uploads.find calls it made                        *)
(*   reqs   : the fetch calls it made, each with its URL and cache mode    *)
(*   status : the status line of the answer, "" before it arrived          *)
(*   parsed : whether toSheetJSRows ran on the body                        *)
(*   writes : the ctx.setFieldValue calls it made                          *)
(*   said   : the notice it set                                            *)
(***************************************************************************)
Statuses == {"200 OK", "404 Not Found"}

\* fetch(input, init): init.cache, "default" when no init is passed
Request(url, cache) == [url |-> url, cache |-> cache]

\* part_001: the ids of the fields whose fieldType is 'file'
FileFieldIds == <<SourceDef(FALSE).id>>

\* part_001: resolveFileFieldId(ctx, preferred); "" stands for null
resolveFileFieldId(ctx, preferred) ==
  LET def == IF preferred = "" THEN NoDef ELSE findFieldDef(ctx, preferred)
  IN IF def # NoDef THEN def.id
     ELSE IF Len(FileFieldIds) > 0 THEN FileFieldIds[1] ELSE ""

\* part_001: getFileFieldValue()
getFileFieldValue(ctx, sourceFileApiKey) ==
  LET fileFieldId == resolveFileFieldId(ctx, sourceFileApiKey)
      val == pickLocalizedValue(Prop(ctx.formValues, fileFieldId), ctx.locale)
  IN IF fileFieldId = "" THEN Null
     ELSE IF IsNullish(val) THEN Null ELSE val

\* part_001: inferColumns(rows), wrapped as the columns meta value
inferColumns(rows) ==
  LET first == IF Len(rows) > 0 /\ Truthy(rows[1]) THEN rows[1] ELSE Obj(<<>>)
  IN Arr([i \in 1..Len(first.kids) |-> Str(first.kids[i].k)])

\* the rows state as the value handed to ctx.setFieldValue
RowsValue(rows) == Arr(rows)

\* useState initialiser / useEffect: rows follow formValues[ctx.fieldPath]
\* when it is an array
SyncedRows(fv, path, tbl) ==
  LET initial == Prop(fv, path[1])
  IN IF Len(path) = 1 /\ IsArray(initial)
       THEN [tbl EXCEPT !.rows = [i \in 1..Len(initial.kids) |-> initial.kids[i].v]]
       ELSE tbl

NewTableChain(kind) ==
  [kind |-> kind, pc |-> "start", outcome |-> "running", ref |-> Null,
   remote |-> 0, reqs |-> <<>>, status |-> "", parsed |-> FALSE,
   writes |-> <<>>, call |-> NoCall, said |-> "none"]

\* return / catch, then finally { setBusy(false) }
TableFinish(ch, outcome, said) ==
  [ch EXCEPT !.pc = "done", !.outcome = outcome, !.call = NoCall, !.said = said]

\* await ctx.setFieldValue(path, value), up to the await
TableSet(ch, pc, path, value) ==
  [ch EXCEPT !.pc = pc, !.call = SetCall(path, value),
             !.writes = Append(@, SetCall(path, value))]

\* const res = await fetch(url), up to the await
TableFetch(ch, url) ==
  [ch EXCEPT !.pc = "fetch", !.reqs = Append(@, Request(url, "default"))]

\* importFromSource from its first line up to its first pending await
TableImportHead(ch) ==
  LET fileVal == getFileFieldValue(Ctx, "sourcefile")
      seen == [ch EXCEPT !.ref = fileVal]
  IN IF ~Truthy(fileVal) THEN TableFinish(seen, "notice", "nofile")
     ELSE IF cmaToken = "" THEN TableFinish(seen, "notice", "notoken")
     \* fetchUploadUrlFromValue: no upload_id, null without a call
     ELSE IF ~Truthy(Prop(fileVal, "upload_id")) THEN TableFinish(seen, "notice", "nourl")
     ELSE [seen EXCEPT !.pc = "meta", !.remote = @ + 1]

InitTable ==
  /\ variant = "table"
  /\ jsonField = TRUE
  /\ cmaToken \in {"", "tok"}
  /\ locale = ""
  /\ srcLocalized = FALSE
  /\ \E fileRaw \in FileRaws, old \in {Null} \cup {RowsValue(g) : g \in ParsedRowSets} :
       formValues = StoredFields(fileRaw, old)
  /\ fieldPath = <<"56">>
  /\ busy = FALSE
  /\ notice = "none"
  /\ toast = "none"
  /\ table = SyncedRows(formValues, fieldPath, EmptyTable)
  /\ chains = <<>>
  /\ lastWriter = 0
  /\ arg = NoArg
  /\ out = NoOut
  /\ target = "sourcefile"
  /\ op = "none"
  /\ resPath = NoPath
  /\ resFile = Null

\* a chain moves on; busy and the notice follow what it did
TableApply(c, ch) ==
  /\ chains' = [chains EXCEPT ![c] = ch]
  /\ busy' = (ch.pc # "done")
  /\ notice' = IF ch.pc = "done" THEN ch.said ELSE notice

\* "Import from source file": importFromSource()
TableImportClick ==
  /\ CanClick
  /\ LET ch == TableImportHead(NewTableChain("import"))
     IN /\ chains' = Append(chains, ch)
        /\ busy' = (ch.pc # "done")
        /\ notice' = ch.said
  /\ UNCHANGED <<ctxVars, resVars, pureVars, cfgVars, toast, table, lastWriter>>

\* part_004 "Pick file (debug)": up to await picker({ multiple: false })
TablePickClick ==
  /\ CanClick
  /\ chains' = Append(chains, [NewTableChain("pick") EXCEPT !.pc = "pick"])
  /\ busy' = TRUE
  /\ notice' = "none"
  /\ UNCHANGED <<ctxVars, resVars, pureVars, cfgVars, toast, table, lastWriter>>

\* "Save JSON to field": saveJson() up to its first await
SaveJsonClick ==
  /\ CanClick
  /\ chains' = Append(chains,
                 TableSet(NewTableChain("save"), "write", fieldPath, RowsValue(table.rows)))
  /\ busy' = TRUE
  /\ notice' = "none"
  /\ UNCHANGED <<ctxVars, resVars, pureVars, cfgVars, toast, table, lastWriter>>

\* client.uploads.find resolved: return upload.url || null; fetch(url)
TableMetaResolve(c) ==
  /\ chains[c].pc = "meta"
  /\ \E upload \in UploadRecords :
       TableApply(c, IF ~Truthy(upload.url)
                       THEN TableFinish(chains[c], "notice", "nourl")
                       ELSE TableFetch(chains[c], upload.url.s))
  /\ UNCHANGED <<ctxVars, resVars, pureVars, cfgVars, toast, table, lastWriter>>

\* the upload picker resolved: nothing picked, or fetch(picked.url)
TablePickResolve(c) ==
  /\ chains[c].pc = "pick"
  /\ \E picked \in UploadRecords :
       TableApply(c, IF picked.url = Null
                       THEN TableFinish(chains[c], "notice", "nopick")
                       ELSE TableFetch(chains[c], picked.url.s))
  /\ UNCHANGED <<ctxVars, resVars, pureVars, cfgVars, toast, table, lastWriter>>

\* fetch resolved with any status: res.arrayBuffer() is awaited next
TableFetchResolve(c) ==
  /\ chains[c].pc = "fetch"
  /\ \E status \in Statuses :
       TableApply(c, [chains[c] EXCEPT !.pc = "body", !.status = status])
  /\ UNCHANGED <<ctxVars, resVars, pureVars, cfgVars, toast, table, lastWriter>>

\* the body arrived and toSheetJSRows read it: setRows(parsed), then the
\* meta fields (importFromSource) or the end of the handler (debug pick)
TableBodyResolve(c) ==
  /\ chains[c].pc = "body"
  /\ \E parsed \in ParsedRowSets :
       /\ table' = [table EXCEPT !.rows = parsed]
       /\ LET ch == [chains[c] EXCEPT !.parsed = TRUE]
          IN TableApply(c, IF ch.kind = "pick" THEN TableFinish(ch, "ok", "none")
                           ELSE TableSet(ch, "set_cols", <<"columnsmeta">>,
                                         Obj(<<KV("columns", inferColumns(parsed))>>)))
  /\ UNCHANGED <<ctxVars, resVars, pureVars, cfgVars, toast, lastWriter>>

\* an awaited ctx.setFieldValue resolved: the host applied it
TableSetResolve(c) ==
  /\ chains[c].pc \in {"write", "set_cols", "set_count"}
  /\ HostApplies(c)
  /\ table' = SyncedRows(formValues', fieldPath, table)
  /\ LET ch == chains[c]
     IN TableApply(c,
          IF ch.pc = "write"
            THEN TableSet(ch, "set_cols", <<"columnsmeta">>,
                          Obj(<<KV("columns", inferColumns(table.rows))>>))
          ELSE IF ch.pc = "set_cols"
            THEN TableSet(ch, "set_count", <<"rowcount">>,
                          Num(ToString(Len(table.rows))))
          ELSE TableFinish(ch, "ok", "none"))
  /\ toast' = IF chains[c].pc = "set_count" /\ chains[c].kind = "save"
                THEN "saved" ELSE toast
  /\ UNCHANGED <<fieldPath, locale, srcLocalized, resVars, pureVars, cfgVars>>

\* an awaited promise rejected or the parser threw: catch, finally
TableCaught(c) ==
  /\ chains[c].pc \in {"meta", "pick", "fetch", "body", "write", "set_cols", "set_count"}
  /\ TableApply(c, TableFinish(chains[c], "caught", "failed"))
  /\ UNCHANGED <<ctxVars, resVars, pureVars, cfgVars, toast, table, lastWriter>>

NextTable ==
  \/ TableImportClick
  \/ TablePickClick
  \/ SaveJsonClick
  \/ \E c \in 1..Len(chains) : TableMetaResolve(c)
  \/ \E c \in 1..Len(chains) : TablePickResolve(c)
  \/ \E c \in 1..Len(chains) : TableFetchResolve(c)
  \/ \E c \in 1..Len(chains) : TableBodyResolve(c)
  \/ \E c \in 1..Len(chains) : TableSetResolve(c)
  \/ \E c \in 1..Len(chains) : TableCaught(c)

SpecTable == InitTable /\ [][NextTable]_vars

(***************************************************************************)
(* SpecPure: one application of a pure function (the Tabular Normalizer,   *)
(* the Upload Value Normalizer, the Locale Selector) to a drawn input.     *)
(* arg = [kind, grid, n, val]: a grid of cells ("aoa"), the same grid as   *)
(* row objects ("rows"), a normalized table of n columns given by its      *)
(* matrix ("table"), a stored file value ("upload"), a stored value that   *)
(* may be a locale map ("locale").                                         *)
(***************************************************************************)
MaxCols == 2
MaxRows == 2

SeqsUpTo(S, n) == UNION {[1..k -> S] : k \in 0..n}

\* cells that decide the shape of the result, cells that exercise coercion
ShapeCells == {Str("a"), Str(" "), Null}
CoerceCells == {Str("Alice"), Num("30"), Str(""), Num("NaN"), Undefined}

Grids ==
  SeqsUpTo(SeqsUpTo(ShapeCells, MaxCols), MaxRows)
  \cup {<<<<c1, c2>>>> : c1 \in CoerceCells, c2 \in CoerceCells}
  \cup {<<<<Str("Alice"), Str("30")>>, <<Str("Bob"), Str("25")>>>>,
        <<<<Str("a"), Str("b")>>, <<Str(""), Str("")>>, <<Str("c"), Str("d")>>>>}

\* a row as sheet_to_json hands it back: an object keyed by header text
HeaderName(i) == "H" \o ToString(i)
RowObject(row) == Obj([i \in 1..Len(row) |-> KV(HeaderName(i), row[i])])
RowObjects(grid) == [r \in 1..Len(grid) |-> RowObject(grid[r])]

\* a normalized table: n columns column_1..column_n, string cells
NormalizedMatrices(n) == SeqsUpTo([1..n -> {Str("a"), Str("")}], MaxRows)
NormalName(i) == "column_" \o ToString(i)
TableColumns(n) == [i \in 1..n |-> NormalName(i)]
TableRows(a) ==
  [r \in 1..Len(a.grid) |-> Obj([i \in 1..a.n |-> KV(NormalName(i), a.grid[r][i])])]

UploadBase ==
  {Undefined, Null, Str(""), Str("plain"), Str("httpfoo"), Str("http://files/a.xlsx"),
   Str("https://files/b.csv?x=1"), Num("0"), Num("7"), UploadOf("u0"),
   NestedUploadOf("u1"), Obj(<<>>), Obj(<<KV("upload", Null)>>),
   Obj(<<KV("upload_id", Null), KV("upload", Obj(<<KV("id", Str("u2"))>>))>>)}
UploadLikes ==
  UploadBase \cup {Arr(<<>>), Arr(<<Null, UploadOf("u0")>>), Arr(<<Arr(<<UploadOf("u0")>>)>>)}
  \cup {Arr(<<v>>) : v \in UploadBase}

LocaleInputs ==
  {Undefined, Null, Str("x"), Str(""), Num("7"), Arr(<<UploadOf("u0")>>), Obj(<<>>),
   Obj(<<KV("en", UploadOf("u0"))>>),
   Obj(<<KV("en", Null), KV("it", UploadOf("u1"))>>),
   Obj(<<KV("it", UploadOf("u1"))>>),
   Obj(<<KV("en", Str("")), KV("it", Null)>>),
   Obj(<<KV("it", Null), KV("de", UploadOf("u1")), KV("en", UploadOf("u0"))>>)}

PureArgs ==
  {[kind |-> k, grid |-> g, n |-> 0, val |-> Undefined] : k \in {"aoa", "rows"}, g \in Grids}
  \cup UNION {{[kind |-> "table", grid |-> g, n |-> n, val |-> Undefined]
               : g \in NormalizedMatrices(n)} : n \in 0..MaxCols}
  \cup {[kind |-> k, grid |-> <<>>, n |-> 0, val |-> v]
        : k \in {"upload"}, v \in UploadLikes}
  \cup {[kind |-> k, grid |-> <<>>, n |-> 0, val |-> v]
        : k \in {"locale"}, v \in LocaleInputs}

InitPure ==
  /\ arg \in PureArgs
  /\ locale \in (IF arg.kind = "locale" THEN Locales ELSE {""})
  /\ out = NoOut
  /\ op = "none"
  /\ formValues = Obj(<<>>)
  /\ fieldPath = <<"56">>
  /\ srcLocalized = FALSE
  /\ target = "sourcefile"
  /\ resPath = NoPath
  /\ resFile = Null
  /\ variant = "block"
  /\ jsonField = TRUE
  /\ cmaToken = ""
  /\ busy = FALSE
  /\ notice = "none"
  /\ toast = "none"
  /\ table = EmptyTable
  /\ chains = <<>>
  /\ lastWriter = 0

Returned(name, result) ==
  /\ op = "none"
  /\ op' = name
  /\ out' = result
  /\ UNCHANGED <<ctxVars, target, resPath, resFile, edVars, arg>>

TableOut(norm, payload) == [rows |-> norm.rows, columns |-> norm.columns, val |-> payload]
ValueOut(v) == [NoOut EXCEPT !.val = v]

\* main.tsx: normalizeAoA(aoa)
ApplyNormalizeAoA ==
  /\ arg.kind = "aoa"
  /\ Returned("normalizeAoA", TableOut(normalizeAoA(arg.grid), Undefined))

\* main.tsx importFromBlock: aoaFromWorksheet, normalizeAoA, payloadObj
ApplyGridImport ==
  /\ arg.kind = "aoa"
  /\ LET norm == normalizeAoA(DropBlankRows(arg.grid))
     IN Returned("gridImport",
                 TableOut(norm, PayloadObj(norm.rows, norm.columns, Null, "1")))

\* importFromSource: normalizeSheetRowsStrings(rowsParsed), payloadObj
ApplyRowImport ==
  /\ arg.kind = "rows"
  /\ LET norm == normalizeSheetRowsStrings(RowObjects(arg.grid))
     IN Returned("rowImport",
                 TableOut(norm, PayloadObj(norm.rows, norm.columns, Null, "1")))

\* normalizeAoA applied to the matrix of a normalized table
ApplyRenormalizeAoA ==
  /\ arg.kind = "table"
  /\ Returned("renormalizeAoA", TableOut(normalizeAoA(arg.grid), Undefined))

\* normalizeSheetRowsStrings applied to the rows of a normalized table
ApplyRenormalizeRows ==
  /\ arg.kind = "table"
  /\ Returned("renormalizeRows",
              TableOut(normalizeSheetRowsStrings(TableRows(arg)), Undefined))

\* main.tsx: normalizeUploadLike(raw)
ApplyNormalizeUploadLike ==
  /\ arg.kind = "upload"
  /\ Returned("normalizeUploadLike", ValueOut(normalizeUploadLike(arg.val)))

\* main.tsx: pickAnyLocaleValue(raw, locale)
ApplyPickAnyLocaleValue ==
  /\ arg.kind = "locale"
  /\ Returned("pickAnyLocaleValue", ValueOut(pickAnyLocaleValue(arg.val, locale)))

\* part_001: pickLocalizedValue(raw, locale)
ApplyPickLocalizedValue ==
  /\ arg.kind = "locale"
  /\ Returned("pickLocalizedValue", ValueOut(pickLocalizedValue(arg.val, locale)))

NextPure ==
  \/ ApplyNormalizeAoA
  \/ ApplyGridImport
  \/ ApplyRowImport
  \/ ApplyRenormalizeAoA
  \/ ApplyRenormalizeRows
  \/ ApplyNormalizeUploadLike
  \/ ApplyPickAnyLocaleValue
  \/ ApplyPickLocalizedValue

SpecPure == InitPure /\ [][NextPure]_vars

(***************************************************************************)
(* Properties of the editor, checked under Spec.                           *)
(***************************************************************************)
Chains == 1..Len(chains)
WriteSequence == <<"callNull", "doneNull", "yield", "callValue", "doneValue">>
IsImport(c) == chains[c].kind \in {"import", "force"}

\* C1: writePayload issues the value write on ctx.fieldPath only after a
\* null write to that path has completed and control has been yielded, and
\* every completed writePayload has produced, on ctx.fieldPath, the
\* sequence null then value (also when the payload equals the stored value).
C1_NullThenValue ==
  \A c \in Chains :
    LET tr == chains[c].trace
    IN \A i \in 1..Len(tr) :
         /\ tr[i] = "callValue" =>
              i >= 4 /\ SubSeq(tr, i - 3, i) = SubSeq(WriteSequence, 1, 4)
         /\ tr[i] = "doneValue" =>
              i >= 5 /\ SubSeq(tr, i - 4, i) = WriteSequence

\* C1 witness: a writePayload has completed whose payload is deep-equal to
\* the value the field held when the import was triggered
C1_Witness ==
  \E c \in Chains :
    /\ Len(chains[c].trace) >= 5
    /\ chains[c].trace[Len(chains[c].trace)] = "doneValue"
    /\ chains[c].pre = WriteValue(jsonField, chains[c].payload)
    /\ chains[c].pre # Null

OthersWroteNothing(c) ==
  \A d \in Chains \ {c} :
    \A i \in 1..Len(chains[d].trace) : chains[d].trace[i] \notin {"doneNull", "doneValue"}

\* C2: an import that failed at any step (started by any button, Force
\* re-import included) leaves the edited field equal to its value before
\* the button was pressed.
C2_FailedImportKeepsValue ==
  \A c \in Chains :
    (/\ IsImport(c)
     /\ chains[c].outcome \in {"notice", "caught", "escaped"}
     /\ OthersWroteNothing(c))
    => FieldValue = chains[c].pre

\* C3: no exception escapes an import: the promise of the handler a click
\* started never rejects, and a raised step ends in a displayed notice.
C3_NothingEscapes ==
  \A c \in Chains : IsImport(c) => chains[c].outcome # "escaped"

\* C4: at most one chain is in flight at any time, and busy is true for as
\* long as any chain is in flight.
C4_OneChainAndBusy ==
  /\ Cardinality({c \in Chains : InFlight(c)}) <= 1
  /\ (\E c \in Chains : InFlight(c)) => busy

AllImportsSucceeded ==
  /\ Len(chains) >= 1
  /\ \A c \in Chains : IsImport(c) /\ chains[c].outcome = "ok"

\* C5: once a sequence of successful imports, sequential or overlapping,
\* has finished, the edited field holds exactly the complete payload of the
\* import whose value write was applied last, never null and never a mix.
C5_LastValueWriteWins ==
  AllImportsSucceeded =>
    /\ lastWriter \in Chains
    /\ FieldValue = WriteValue(jsonField, chains[lastWriter].payload)
    /\ FieldValue # Null
    /\ chains[lastWriter].payload.t = "obj"
    /\ HasOwn(chains[lastWriter].payload, "columns")
    /\ HasOwn(chains[lastWriter].payload, "data")

\* C5 witness: two overlapping successful imports of different tables, the
\* one started first having written its value last
C5_Witness ==
  /\ AllImportsSucceeded
  /\ Len(chains) = 2
  /\ chains[2].overlapped
  /\ Prop(chains[1].payload, "data") # Prop(chains[2].payload, "data")
  /\ lastWriter = 1
  /\ FieldValue = WriteValue(jsonField, chains[1].payload)

(***************************************************************************)
(* Properties of the resolver, checked under SpecResolve.                  *)
(***************************************************************************)
\* the editing field and the target are direct children of one container
DirectSiblings == EditedFieldInPlace /\ TargetDef # NoDef /\ OwnsTarget(Enclosing)
StoredKeys == {k \in TargetKeys : HasOwn(Enclosing, k)}
OwnedTargetPaths == {Append(EnclosingPath, k) : k \in StoredKeys}

\* C6: when the editing field and the target sibling are direct children of
\* the same container, sibling resolution (for reading and for writing the
\* meta fields) returns the container path followed by the key the sibling
\* is stored under, a trailing locale segment aside, for containers keyed
\* by field id as well as by API key.
C6_SiblingPathIsStoredKey ==
  (op \in PathOps /\ DirectSiblings) =>
    (resPath.kind = "path" /\ ResolvedSegs \in OwnedTargetPaths)

LocalizedStored(k) ==
  LET v == Prop(Enclosing, k)
  IN v.t = "obj" /\ HasOwn(v, locale) /\ Truthy(Prop(Prop(v, locale), "upload_id"))
LocalizedScenario ==
  /\ EditedFieldInPlace /\ ~HasLocaleTail
  /\ target = "sourcefile" /\ srcLocalized /\ locale # ""
  /\ StoredKeys # {}
  /\ \A k \in StoredKeys : LocalizedStored(k)

\* C7: for a localized target sibling stored under the container as a
\* locale map holding the active locale, the resolved path is container
\* path + sibling key + active locale, and the file reference obtained is
\* the one carrying the upload id stored there (not null).
C7_LocalizedSibling ==
  LocalizedScenario =>
    /\ op = "resolveSiblingPathInBlock" =>
         (resPath.kind = "path"
          /\ \E k \in StoredKeys : splitPath(resPath.path) = EnclosingPath \o <<k, locale>>)
    /\ op \in FileOps =>
         \E k \in StoredKeys :
           Prop(resFile, "upload_id") = Prop(Prop(Prop(Enclosing, k), locale), "upload_id")

AllNodes == NodePaths(formValues, <<>>)
BothOwners == {p \in AllNodes : OwnsEdit(NodeAt(p)) /\ OwnsTarget(NodeAt(p))}
ImmediateParentPath == SubSeq(PathSegs, 1, Len(PathSegs) - 1)
FallbackScenario ==
  /\ TargetDef # NoDef
  /\ Len(PathSegs) >= 1
  /\ ~OwnsTarget(NodeAt(ImmediateParentPath))
  /\ Cardinality(BothOwners) = 1
TheOwner == CHOOSE p \in BothOwners : TRUE

\* C8: when the immediate parent of the editing field does not contain the
\* target but exactly one other node owns both the editing field's key and
\* the target's key, sibling resolution returns the path of the target
\* under that node, found by the depth-first fallback.
C8_FallbackFindsOwner ==
  (op = "resolveSiblingPathInBlock" /\ FallbackScenario
   /\ EditedFieldInPlace /\ ~HasLocaleTail) =>
    (resPath.kind = "path"
     /\ \E k \in TargetKeys :
          HasOwn(NodeAt(TheOwner), k) /\ ResolvedSegs = Append(TheOwner, k))

NoOwner == \A p \in AllNodes : ~OwnsTarget(NodeAt(p))

\* C9: for every record tree, editing path and target key, when no node of
\* the tree owns the target field, sibling resolution returns null and
\* raises nothing.
C9_NoOwnerGivesNull ==
  (op \in FileOps \cup {"resolveSiblingPathInBlock"} /\ NoOwner) =>
    (resPath = NoPath /\ resFile = Null)

\* C9 witness: resolution ran through a null block instance, nothing in the
\* tree owning the target, and returned null
C9_Witness ==
  /\ op = "resolveSiblingPathInBlock"
  /\ NoOwner
  /\ target = "sourcefile"
  /\ fieldPath = <<"blocks", "0", "inner", "56">>
  /\ Prop(Prop(formValues, "blocks"), "0") = Null
  /\ resPath = NoPath

RefInEnclosing == \E k \in TargetKeys : RefId(resFile) \in IdsIn(Prop(Enclosing, k))

\* C10: whatever sibling resolution returns belongs to the composite that
\* encloses the field at ctx.fieldPath, with or without a trailing locale
\* segment: never the sibling of another block instance.
C10_SameEnclosingComposite ==
  (op \in FileOps \cup {"resolveSiblingPathInBlock"} /\ EditedFieldInPlace) =>
    /\ (op = "resolveSiblingPathInBlock" /\ resPath.kind = "path") =>
         SubSeq(ResolvedSegs, 1, Len(ResolvedSegs) - 1) = EnclosingPath
    /\ (op \in FileOps /\ resFile # Null) => RefInEnclosing

(***************************************************************************)
(* Properties of the pure functions, checked under SpecPure.               *)
(***************************************************************************)
NormalizerOps == {"normalizeAoA", "gridImport", "rowImport"}
\* the widest row of the source grid (0 for a grid without rows)
SourceWidth == MaxOf({0} \cup {Len(arg.grid[r]) : r \in 1..Len(arg.grid)})
RowKeys(row) == [i \in 1..Len(row.kids) |-> row.kids[i].k]

\* C11: for every grid or row list, the empty and the ragged ones included,
\* every normalized row has exactly the keys listed in columns, and
\* columns.length is the maximum row width found in the source.
C11_WidthInvariant ==
  op \in {"normalizeAoA", "rowImport"} =>
    /\ \A r \in 1..Len(out.rows) : RowKeys(out.rows[r]) = out.columns
    /\ Len(out.columns) = SourceWidth

\* the text a cell is expected to become
StringForm(cell) ==
  IF IsNullish(cell) \/ (cell.t = "num" /\ cell.s = "NaN") THEN "" ELSE cell.s
IsString(v) == v.t = "str"
DataOf(payload) == Prop(payload, "data").kids

\* C12: every cell of the normalized table and of the emitted data matrix
\* is a string; null, undefined and NaN cells, and cells missing because a
\* source row is short, are the empty string.
C12_CellsAreStrings ==
  op \in NormalizerOps =>
    /\ \A r \in 1..Len(out.rows) : \A i \in 1..Len(out.rows[r].kids) :
         IsString(out.rows[r].kids[i].v)
    /\ op # "normalizeAoA" =>
         \A r \in 1..Len(DataOf(out.val)) : \A i \in 1..Len(DataOf(out.val)[r].v.kids) :
           IsString(DataOf(out.val)[r].v.kids[i].v)
    /\ op \in {"normalizeAoA", "rowImport"} =>
         \A r \in 1..Len(out.rows) : \A i \in 1..Len(out.columns) :
           (i > Len(arg.grid[r]) \/ StringForm(arg.grid[r][i]) = "")
           => out.rows[r].kids[i].v = Str("")

\* C12 witness: a grid with a null cell and a short row was normalized,
\* both places holding the empty string
C12_Witness ==
  /\ op = "normalizeAoA"
  /\ arg.grid = <<<<Str("a"), Null>>, <<Str("a")>>>>
  /\ Prop(out.rows[1], "column_2") = Str("")
  /\ Prop(out.rows[2], "column_2") = Str("")

IsBlankCell(cell) == IsNullish(cell) \/ (cell.t = "str" /\ cell.s \in {"", " "})
IsBlankRow(row) == \A i \in 1..Len(row) : IsBlankCell(row[i])
NoBlankRows == \A r \in 1..Len(arg.grid) : ~IsBlankRow(arg.grid[r])
ExpectedColumns(n) == Arr([i \in 1..n |-> Str("column_" \o ToString(i))])
ExpectedData(grid, n) ==
  Arr([r \in 1..Len(grid) |->
         Arr([i \in 1..n |-> IF i <= Len(grid[r]) THEN Str(StringForm(grid[r][i]))
                             ELSE Str("")])])
MatrixIs(n) ==
  /\ Prop(out.val, "columns") = ExpectedColumns(n)
  /\ Prop(out.val, "data") = ExpectedData(arg.grid, n)

KeptRows == SelectSeq(arg.grid, LAMBDA row : ~IsBlankRow(row))

\* C14: the grid-based import drops a source row exactly when all its
\* cells are empty after trimming and keeps the others in their order; the
\* row-object import keeps every row.
C14_BlankRowsDropped ==
  /\ op = "gridImport" =>
       /\ Len(out.rows) = Len(KeptRows)
       /\ \A k \in 1..Len(KeptRows) : \A i \in 1..Len(KeptRows[k]) :
            Prop(out.rows[k], NormalName(i)) = Str(StringForm(KeptRows[k][i]))
  /\ op = "rowImport" => Len(out.rows) = Len(arg.grid)

\* C14 witness: the grid [[a,b],['',''],[c,d]] was imported as 2 rows
C14_Witness ==
  /\ op = "gridImport"
  /\ arg.grid = <<<<Str("a"), Str("b")>>, <<Str(""), Str("")>>, <<Str("c"), Str("d")>>>>
  /\ Len(out.rows) = 2
  /\ Prop(out.rows[2], "column_1") = Str("c")

Renormalized == op \in {"renormalizeAoA", "renormalizeRows"}
SameTable == out.columns = TableColumns(arg.n) /\ out.rows = TableRows(arg)

HasHttpScheme(x) == x \in {"http://files/a.xlsx", "https://files/b.csv?x=1"}
NoRef == [kind |-> "null", x |-> ""]
RECURSIVE ExpectedRef(_)
ExpectedRef(v) ==
  IF IsArray(v)
    THEN (IF Len(v.kids) = 0 THEN NoRef ELSE ExpectedRef(v.kids[1].v))
  ELSE IF v.t = "obj" /\ Truthy(Prop(v, "upload_id"))
    THEN [kind |-> "upload", x |-> Prop(v, "upload_id").s]
  ELSE IF v.t = "obj" /\ Truthy(Prop(Prop(v, "upload"), "id"))
    THEN [kind |-> "upload", x |-> Prop(Prop(v, "upload"), "id").s]
  ELSE IF v.t = "str" /\ HasHttpScheme(v.s) THEN [kind |-> "url", x |-> v.s]
  ELSE NoRef
ReturnedRef(v) ==
  IF v = Null THEN NoRef
  ELSE IF HasOwn(v, "upload_id") THEN [kind |-> "upload", x |-> Prop(v, "upload_id").s]
  ELSE IF HasOwn(v, "__direct_url") THEN [kind |-> "url", x |-> Prop(v, "__direct_url").s]
  ELSE [kind |-> "other", x |-> ""]

\* C16: the Upload Value Normalizer raises for no input and returns the
\* first element's result for a sequence, a reference with the upload id
\* for a value carrying one directly or under 'upload', a direct-URL
\* reference for a string beginning with an http(s) scheme, null otherwise.
C16_UploadNormalizer ==
  op = "normalizeUploadLike" =>
    /\ ~IsThrow(out.val)
    /\ ReturnedRef(out.val) = ExpectedRef(arg.val)

SameValue(a, b) == a = b \/ (IsNullish(a) /\ IsNullish(b))
ExpectedPick(raw, loc) ==
  IF raw.t # "obj" THEN raw
  ELSE IF loc # "" /\ HasOwn(raw, loc) /\ Truthy(Prop(raw, loc)) THEN Prop(raw, loc)
  ELSE IF \E i \in 1..Len(raw.kids) : Truthy(raw.kids[i].v)
    THEN raw.kids[CHOOSE i \in 1..Len(raw.kids) :
                    /\ Truthy(raw.kids[i].v)
                    /\ \A j \in 1..(i - 1) : ~Truthy(raw.kids[j].v)].v
  ELSE Null

\* C17: the Locale Selector returns a value that is not an object, or is a
\* sequence, unchanged; for an object, the active locale's value when that
\* key is present and truthy, else the value of the first key with a truthy
\* value, else null.
C17_LocaleSelector ==
  op \in {"pickAnyLocaleValue", "pickLocalizedValue"} =>
    SameValue(out.val, ExpectedPick(arg.val, locale))


(***************************************************************************)
(* Properties of the table editor (SpecTable).                             *)
(***************************************************************************)
\* the URLs a download may be resolved to
ResolvedUrls == {r.url.s : r \in {u \in UploadRecords : u.url # Null}}
                  \cup {v.s : v \in {w \in FileRaws : w.t = "str"}}
HasQuery(url) == url = "https://files/b.csv?x=1"
\* url with a cache-defeating parameter appended
CacheDefeating(url) ==
  {url \o (IF HasQuery(url) THEN "&" ELSE "?") \o "cb=" \o ToString(n) : n \in 1..MaxClock}

\* C18: every download request an editor issues carries a cache-defeating
\* query parameter appended to the resolved URL ('&' when the URL already
\* has a query, '?' otherwise) and is made with HTTP caching disabled.
C18_DownloadsDefeatCache ==
  \A c \in Chains : \A i \in 1..Len(chains[c].reqs) :
    /\ chains[c].reqs[i].cache = "no-store"
    /\ \E u \in ResolvedUrls : chains[c].reqs[i].url \in CacheDefeating(u)

IsUploadIdRef(v) == v.t = "obj" /\ Truthy(Prop(v, "upload_id"))
IsDirectUrlRef(v) == v.t = "str" /\ HasHttpScheme(v.s)

\* C19: an import whose resolved file reference is an upload id, with no
\* API credential configured, makes no remote call, no download and no host
\* write, ends with the notice asking for the credential and raises
\* nothing; an import whose reference is a direct URL proceeds with that
\* URL (a download of it is issued) whether or not a credential is set.
C19_CredentialOnlyForUploadId ==
  \A c \in Chains : chains[c].kind = "import" =>
    /\ (IsUploadIdRef(chains[c].ref) /\ cmaToken = "") =>
         /\ chains[c].remote = 0
         /\ chains[c].reqs = <<>>
         /\ chains[c].writes = <<>>
         /\ chains[c].pc = "done"
         /\ chains[c].outcome = "notice"
         /\ chains[c].said = "notoken"
    /\ IsDirectUrlRef(chains[c].ref) =>
         /\ chains[c].remote = 0
         /\ chains[c].reqs # <<>>
         /\ chains[c].reqs[1].url \in {chains[c].ref.s} \cup CacheDefeating(chains[c].ref.s)

NonOk(status) == status # "" /\ status # "200 OK"
\* the notice importFromBlock ends with when the download is not ok
StatusNotice(status) == "Import failed: Fetch failed: " \o status

\* C20: an import's download answered with a non-2xx status is not parsed, nothing
\* is written to any field, no second request is issued, and the handler
\* ends with a notice containing the status code and status text.
C20_FailedDownloadStops ==
  \A c \in Chains : (chains[c].kind = "import" /\ NonOk(chains[c].status)) =>
    /\ ~chains[c].parsed
    /\ chains[c].writes = <<>>
    /\ Len(chains[c].reqs) = 1
    /\ chains[c].pc = "done" => chains[c].said = StatusNotice(chains[c].status)

(***************************************************************************)
(* Properties of the editor, continued.                                    *)
(***************************************************************************)
\* the file reference an import resolves in the current record
ResolvedFile ==
  IF variant = "block" THEN getSiblingFileFromBlockMain(Ctx, "sourcefile")
  ELSE getFileFieldValueStrict(Ctx, "sourcefile")
NoFileResolved == ~IsThrow(ResolvedFile) /\ ~Truthy(ResolvedFile)
\* the notices that enumerate the file fields actually available
ListingNotices == {"filelist"}

\* C21: when the source file field holds no file, an import throws
\* nothing, downloads nothing, writes nothing, and the notice displayed
\* when it has ended is the message listing the available file fields.
C21_MissingFileListsFields ==
  \A c \in Chains : (chains[c].kind = "import" /\ NoFileResolved) =>
    /\ chains[c].pc = "done"
    /\ chains[c].outcome = "notice"
    /\ chains[c].trace = <<>>
    /\ c = Len(chains) => notice \in ListingNotices


(***************************************************************************)
(* Properties of the resolver, continued.                                  *)
(***************************************************************************)
\* the container of the edited field stores the target under its id and
\* under its API key
BothKeysScenario ==
  /\ EditedFieldInPlace /\ ~HasLocaleTail
  /\ TargetDef # NoDef
  /\ HasOwn(Enclosing, TargetDef.id) /\ HasOwn(Enclosing, TargetDef.apiKey)
  /\ locale = "" \/ ~TargetDef.localized
NoId == Str("")
\* the upload id or URL a stored file value designates, NoId for none
StoredId(v0) ==
  LET v == IF IsArray(v0) THEN Prop(v0, "0") ELSE v0
  IN IF IsNullish(v) THEN NoId
     ELSE IF v.t = "str" THEN (IF HasHttpScheme(v.s) THEN v ELSE NoId)
     ELSE IF Truthy(Prop(v, "upload_id")) THEN Prop(v, "upload_id")
     ELSE IF Truthy(Prop(Prop(v, "upload"), "id")) THEN Prop(Prop(v, "upload"), "id")
     ELSE NoId
ReturnedId(ref) == IF IsNullish(ref) \/ IsNullish(RefId(ref)) THEN NoId ELSE RefId(ref)

\* C22: when the container owns both a key equal to the target field's id
\* and a key equal to its API key, the path returned ends in the id key and
\* the file reference read is the one stored under the id key.
C22_IdentifierKeyWins ==
  BothKeysScenario =>
    /\ op \in PathOps =>
         (resPath.kind = "path" /\ ResolvedSegs = Append(EnclosingPath, TargetDef.id))
    /\ op \in FileOps =>
         ReturnedId(resFile) = StoredId(Prop(Enclosing, TargetDef.id))


AllPathOps == {"resolveSiblingPathInBlock", "resolveTopLevelPath",
               "setSiblingInBlock", "getFieldPath"}
EndsWithLocale(path) ==
  LET segs == splitPath(path)
  IN locale # "" /\ Len(segs) >= 2 /\ segs[Len(segs)] = locale

\* C23: a path resolved for a target field ends with the active locale
\* segment if and only if the target field is localized and a locale is
\* active.
C23_LocaleSuffixIffLocalized ==
  (op \in AllPathOps /\ resPath.kind = "path") =>
    (EndsWithLocale(resPath.path) <=> (TargetDef.localized /\ locale # ""))


RECURSIVE PreOrder(_, _)
RECURSIVE PreOrderKids(_, _, _)
\* the paths of the objects and arrays of a tree: a node before its
\* descendants, children in stored order (array index, key iteration)
PreOrder(node, trail) ==
  IF ~IsObjectLike(node) THEN <<>>
  ELSE <<trail>> \o PreOrderKids(node, trail, 1)
PreOrderKids(node, trail, i) ==
  IF i > Len(node.kids) THEN <<>>
  ELSE PreOrder(node.kids[i].v, Append(trail, node.kids[i].k))
         \o PreOrderKids(node, trail, i + 1)
EditOwnersInOrder ==
  SelectSeq(PreOrder(formValues, <<>>), LAMBDA p : OwnsEdit(NodeAt(p)))
\* the parent of ctx.fieldPath is not an object owning the editing field
FallbackUsed ==
  ~(IsObjectLike(NodeAt(ImmediateParentPath)) /\ OwnsEdit(NodeAt(ImmediateParentPath)))
FirstOwner == EditOwnersInOrder[1]

\* C24: when the fallback traversal is used and several nodes own the
\* editing field's key, the container chosen is the first of them in
\* pre-order: the path returned lies in it, the file reference returned is
\* stored in it, and a path is returned whenever it owns the target.
C24_FirstInPreOrderWins ==
  (FallbackUsed /\ Len(EditOwnersInOrder) >= 2) =>
    /\ (op = "resolveSiblingPathInBlock" /\ resPath.kind = "path") =>
         SubSeq(ResolvedSegs, 1, Len(ResolvedSegs) - 1) = FirstOwner
    /\ (op = "resolveSiblingPathInBlock" /\ TargetDef # NoDef
        /\ OwnsTarget(NodeAt(FirstOwner))) => resPath.kind = "path"
    /\ (op = "getSiblingFileFromBlock" /\ resFile # Null) =>
         \E k \in TargetKeys : RefId(resFile) \in IdsIn(Prop(NodeAt(FirstOwner), k))

\* C24 witness: the fallback ran over a tree in which two block instances
\* own the editing field, and the path returned lies in the first
C24_Witness ==
  /\ op = "resolveSiblingPathInBlock"
  /\ FallbackUsed
  /\ Len(EditOwnersInOrder) >= 2
  /\ FirstOwner = <<"blocks", "0">>
  /\ resPath.kind = "path"
  /\ SubSeq(ResolvedSegs, 1, Len(ResolvedSegs) - 1) = FirstOwner


(***************************************************************************)
(* Properties of the editor: the order of the steps of one import.         *)
(***************************************************************************)
\* the position of an await in the chain the claim describes
StepRank(pc) ==
  CASE pc = "start" -> 0
    [] pc = "meta" -> 1
    [] pc = "fetch" -> 2
    [] pc = "body" -> 3
    [] pc = "write" -> 4
    [] pc = "set_cols" -> 5
    [] pc = "set_count" -> 6
    [] pc = "save" -> 7
    [] pc = "publish" -> 8
    [] OTHER -> 9
\* one step of an import handler, seen from outside
LinearStep(old, new) ==
  \* it moves on to a later step, or from the null write to the value write
  /\ \/ StepRank(new.pc) > StepRank(old.pc)
     \/ old.pc = "write" /\ new.pc = "write" /\ old.wpi = 1 /\ new.wpi = 2
  \* the edited field is written only between parsing and the meta writes
  /\ new.trace # old.trace => old.pc \in {"body", "write"}
  \* the meta writes and the save follow the completed payload write
  /\ new.pc \in {"set_cols", "set_count", "save"} => new.trace = WriteSequence
  \* the success notice follows the save
  /\ new.outcome = "ok" => old.pc = "save"

Settles(c) ==
  /\ c \in 1..Len(chains)
  /\ \/ Caught(c)
     \/ ForceNullReject(c)
     \/ MetaResolve(c)
     \/ FetchResolve(c)
     \/ BodyResolve(c)
     \/ SaveResolve(c)
     \/ PublishResolve(c)
     \/ HostSetResolve(c)
     \/ ForceNullResolve(c)

SpecLive == Init /\ [][Next]_vars /\ \A c \in 1..MaxChains : WF_vars(Settles(c))

Invoked(c) == c \in 1..Len(chains)
Ended(c) == Invoked(c) /\ chains[c].pc = "done"

\* C26: every invocation of an import or save-and-publish handler ends,
\* whatever its exit path, and busy is false once no handler is running.
C26_BusyEventuallyCleared ==
  /\ \A c \in 1..MaxChains : Invoked(c) ~> Ended(c)
  /\ []((\A c \in Chains : Ended(c)) => ~busy)

\* C26 witness: one handler ended in its catch block, another with
\* success, and busy is false
C26_Witness ==
  /\ Len(chains) = 2
  /\ chains[1].kind = "import" /\ chains[1].outcome = "caught"
  /\ chains[2].kind = "save" /\ chains[2].outcome = "ok"
  /\ Ended(1) /\ Ended(2)
  /\ ~busy


(***************************************************************************)
(* Properties of the resolver: single upload objects.                      *)
(***************************************************************************)
IsUploadObject(v) == v.t = "obj" /\ Truthy(Prop(v, "upload_id"))
\* the target is the source file field, stored in the container of the
\* edited field under one key as a single upload object
SingleUploadScenario ==
  /\ EditedFieldInPlace /\ ~HasLocaleTail
  /\ target = "sourcefile" /\ ~srcLocalized
  /\ Cardinality(StoredKeys) = 1
  /\ \A k \in StoredKeys : IsUploadObject(Prop(Enclosing, k))

\* C27: for a sibling file field whose stored value is a single upload
\* object not keyed by locale, the file reference returned by the sibling
\* lookup carries that upload id (it is not null).
C27_UploadObjectSurvives ==
  (op \in FileOps /\ SingleUploadScenario) =>
    \A k \in StoredKeys :
      Prop(resFile, "upload_id") = Prop(Prop(Enclosing, k), "upload_id")


(***************************************************************************)
(* Properties of the editor: the meta siblings after imports.              *)
(***************************************************************************)
\* the table stored in the edited field
StoredTable ==
  IF jsonField THEN FieldValue
  ELSE IF Truthy(FieldValue) THEN ParseJson(FieldValue) ELSE Null
\* the value stored in the sibling of the edited field with this id
SiblingValue(id) ==
  getAtPath(formValues, SubSeq(fieldPath, 1, Len(fieldPath) - 1) \o <<id>>)
\* every handler invoked so far was an import and ended successfully
OnlySuccessfulImports ==
  /\ Len(chains) >= 1
  /\ \A c \in 1..Len(chains) :
       /\ IsImport(c)
       /\ chains[c].pc = "done" /\ chains[c].outcome = "ok"
MetaInSync ==
  /\ IsObjectLike(StoredTable)
  /\ SiblingValue("58") = Num(ToString(Len(Prop(StoredTable, "data").kids)))
  /\ SiblingValue("57") = Obj(<<KV("columns", Prop(StoredTable, "columns"))>>)

\* C28: after any sequence of successful imports, two overlapping ones
\* included, the row-count sibling equals the number of data rows stored in
\* the edited field and the columns sibling equals the stored columns.
C28_MetaSiblingsMatchField == OnlySuccessfulImports => MetaInSync
\* the same for imports that did not overlap another handler
C28_Sequential ==
  (OnlySuccessfulImports /\ \A c \in 1..Len(chains) : ~chains[c].overlapped) => MetaInSync


(***************************************************************************)
(* SpecSave: the block-aware editor (src/unnamed/part_000) mounted on a    *)
(* field at the record's top level, inside a block instance, or at a path  *)
(* ending with the locale.                                                 *)
(***************************************************************************)
LocalizedFields(fileRaw, old) ==
  Obj(<<KV("55", fileRaw), KV("56", Obj(<<KV("en", old)>>)), KV("57", Null),
        KV("58", Null)>>)

Positions == {"top", "nested", "localized"}

InitSave ==
  /\ variant = "aware"
  /\ jsonField \in BOOLEAN
  /\ cmaToken \in {"", "tok"}
  /\ srcLocalized = FALSE
  /\ \E fileRaw \in FileRaws, old \in {Null, WriteValue(jsonField, OldPayload)},
        position \in Positions :
       IF position = "top"
         THEN /\ formValues = StoredFields(fileRaw, old)
              /\ fieldPath = <<"56">>
              /\ locale = ""
       ELSE IF position = "nested"
         THEN /\ formValues = Obj(<<KV("blocks", Arr(<<StoredFields(fileRaw, old)>>))>>)
              /\ fieldPath = <<"blocks", "0", "56">>
              /\ locale = ""
       ELSE /\ formValues = LocalizedFields(fileRaw, old)
            /\ fieldPath = <<"56", "en">>
            /\ locale = "en"
  /\ busy = FALSE
  /\ notice = "none"
  /\ toast = "none"
  /\ table = SyncedTable(variant, jsonField, formValues, fieldPath, EmptyTable)
  /\ chains = <<>>
  /\ lastWriter = 0
  /\ arg = NoArg
  /\ out = NoOut
  /\ target = "sourcefile"
  /\ op = "none"
  /\ resPath = NoPath
  /\ resFile = Null

NextSave ==
  \/ ImportClick
  \/ SaveAndPublishClick
  \/ \E c \in 1..Len(chains) : HostSetResolve(c)
  \/ \E c \in 1..Len(chains) : MetaResolve(c)
  \/ \E c \in 1..Len(chains) : FetchResolve(c)
  \/ \E c \in 1..Len(chains) : BodyResolve(c)
  \/ \E c \in 1..Len(chains) : SaveResolve(c)
  \/ \E c \in 1..Len(chains) : PublishResolve(c)
  \/ \E c \in 1..Len(chains) : Caught(c)

SpecSave == InitSave /\ [][NextSave]_vars

\* the table a stored field value holds
TableOf(v) ==
  IF jsonField THEN v ELSE IF Truthy(v) THEN ParseJson(v) ELSE Null
HoldsTable(v) ==
  IsObjectLike(v) /\ Truthy(Prop(v, "columns")) /\ Truthy(Prop(v, "data"))
\* Save & Publish pressed on a stored table, every handler before it a
\* successful import that had ended
SaveOfStoredTable(c) ==
  /\ chains[c].kind = "save" /\ chains[c].payload # Null
  /\ HoldsTable(TableOf(chains[c].pre))
  /\ ~chains[c].overlapped
  /\ \A d \in 1..(c - 1) : IsImport(d) /\ chains[d].outcome = "ok"
KeepsTable(c) ==
  /\ Prop(chains[c].payload, "columns") = Prop(TableOf(chains[c].pre), "columns")
  /\ Prop(chains[c].payload, "data") = Prop(TableOf(chains[c].pre), "data")

\* C29: Save & Publish never changes the table held by the edited field: at
\* every position of the field (top level, nested in a block, with a locale
\* segment) and whether or not an import ran before, the columns and data
\* it writes to ctx.fieldPath are those stored before the handler ran.
C29_SaveKeepsStoredTable ==
  \A c \in 1..Len(chains) : SaveOfStoredTable(c) => KeepsTable(c)
\* the same for the field at the record's top level without a locale segment
C29_TopLevel ==
  \A c \in 1..Len(chains) :
    (SaveOfStoredTable(c) /\ Len(fieldPath) = 1) => KeepsTable(c)
\* the same for a Save & Publish that follows an import
C29_AfterImport ==
  \A c \in 1..Len(chains) : (SaveOfStoredTable(c) /\ c > 1) => KeepsTable(c)


(***************************************************************************)
(* Properties of the resolver: the shape of a resolved sibling path.       *)
(***************************************************************************)
SiblingPathResolved == op = "resolveSiblingPathInBlock" /\ resPath.kind = "path"
NoEmptySegment(path) == \A i \in 1..Len(path) : path[i] # ""
\* the segments of the container found, then the matched key, then the
\* locale when the target is localized and a locale is active
ExpectedSegs ==
  LET hit == findBlockContainerWithCurrentField(Ctx)
      key == FirstOwnedKey(hit.container, KeyCandidates(TargetDef), 1)
  IN splitPath(hit.containerPath) \o <<key>>
     \o (IF TargetDef.localized /\ locale # "" THEN <<locale>> ELSE <<>>)

\* C30: a non-null path of resolveSiblingPathInBlock is a dot-separated
\* sequence of non-empty segments, the container's followed by the matched
\* key and the locale if any; with the editing field at the top level (an
\* empty container path) it has no leading separator and no empty segment.
C30_SiblingPathWellFormed ==
  SiblingPathResolved =>
    /\ NoEmptySegment(resPath.path)
    /\ resPath.path = ExpectedSegs
\* the same for a container below the root
C30_BelowRoot ==
  (SiblingPathResolved
     /\ findBlockContainerWithCurrentField(Ctx).containerPath # EmptyString) =>
    /\ NoEmptySegment(resPath.path)
    /\ resPath.path = ExpectedSegs
\* walked from the root as getAtPath walks it (empty segments dropped), the
\* path without its locale reaches the sibling's stored value in every case
C30_WalkReachesSibling ==
  SiblingPathResolved =>
    LET hit == findBlockContainerWithCurrentField(Ctx)
        key == FirstOwnedKey(hit.container, KeyCandidates(TargetDef), 1)
    IN getAtPath(formValues, ResolvedSegs) = Prop(hit.container, key)

====
